---- MODULE Spec2Model ----
(***************************************************************************)
(* Channel dispatch loop, per-sender interruption and the per-message      *)
(* processing pipeline of src/channels/message_pipeline.rs, wired as in    *)
(* src/channels/startup.rs; then the subsystems around it: the plugin     *)
(* subprocess protocol, the channel doctor, the Signal PIN gate, the       *)
(* task_plan tool and the cron command handler.                            *)
(***************************************************************************)
EXTENDS Integers, Sequences, FiniteSets, TLC

\* ---------------------------------------------------------------- bounds
MaxMessages == 2
MaxInFlight == 1
CompactKeep == 2

\* ------------------------------------------------------ program constants
BUS_CAPACITY == 100

Channels == {"telegram", "cli"}
Senders  == {"u1"}
Contents == {"hi"}
ChainRoles == {"running", "waiting", "superseding"}
PairRoles == {"running", "arriving"}

NoMsg == [id |-> 0, channel |-> "", sender |-> "", reply_target |-> "", content |-> ""]

NoKey == <<"", "">>
NoEntry == [task_id |-> 0, owner |-> 0]

VARIABLES
    bus,                      \* mpsc channel contents (tx -> rx)
    busClosed,                \* every sender handle dropped
    sent,                     \* messages enqueued so far
    loopPc,                   \* position of run_message_dispatch_loop
    loopMsg,                  \* the message the loop holds between recv and spawn
    permits,                  \* free permits of the semaphore
    task_sequence,            \* AtomicU64 task id counter
    in_flight_by_sender,      \* scope key -> InFlightSenderTaskState
    active,                   \* the worker holding the lock of in_flight_by_sender, 0 if none
    joined,                   \* workers already harvested from the JoinSet
    ctx,                      \* ChannelRuntimeContext: interrupt flag, hooks, channel registry
    env,                      \* what the listeners, provider and channels do in this run
    max_in_flight_messages,   \* the size of the semaphore
    pc,                       \* position of each worker task
    wmsg,                     \* the message each worker processes
    sender_scope_key,         \* worker local
    interrupt_enabled,        \* worker local
    task_id,                  \* worker local
    cancelled,                \* worker's CancellationToken state
    completion,               \* worker's InFlightTaskCompletion state
    previous,                 \* worker local: owner of the swapped-out entry
    conversation_histories,   \* history key -> turns
    msg,                      \* pipeline local: the message after on_message_received
    has_target,               \* pipeline local: target_channel.is_some()
    draft_message_id,         \* pipeline local: draft_message_id.is_some()
    llm_result,               \* pipeline local
    outcome,                  \* how the pipeline run ended
    calls,                    \* channel calls made for each message, in order
    invocation,               \* one plugin invocation: the child, the clock, the result
    doctor,                   \* doctor_channels: the channels, the position, the counters
    policy,                   \* SignalPinManager.policy
    state_file,               \* the contents of signal-pin-state.json
    now,                      \* Utc::now(), in minutes
    pin_last,                 \* the last SignalPinManager call and what it returned
    pin_log,                  \* what has happened to the PIN since it was last set
    security,                 \* TaskPlanTool.security
    plan_state,               \* TaskPlanTool.state: the tasks and next_id
    plan_last,                \* the last task_plan call: its arguments and its ToolResult
    jobs,                     \* the cron job store
    cron_last,                \* the last cron command and what it returned
    stream                    \* one pipeline run on a channel with drafts: the delta channel, the updater, the calls

loopVars == <<bus, busClosed, sent, loopPc, loopMsg, joined>>
\* The state of the other subsystems, which the dispatch loop never touches.
pluginVars == <<invocation>>
doctorVars == <<doctor>>
pinVars == <<policy, state_file, now, pin_last, pin_log>>
planVars == <<security, plan_state, plan_last>>
cronVars == <<jobs, cron_last>>
streamVars == <<stream>>
otherVars == <<pluginVars, doctorVars, pinVars, planVars, cronVars, streamVars>>
cfgVars == <<ctx, env, max_in_flight_messages, otherVars>>
wrapVars == <<sender_scope_key, interrupt_enabled, task_id, previous>>
pipeVars == <<conversation_histories, msg, has_target, draft_message_id, llm_result, outcome, calls>>
\* One worker slot for every message the listeners may send in the run.
Workers == DOMAIN pc

vars == <<bus, busClosed, sent, loopPc, loopMsg, permits, task_sequence,
          in_flight_by_sender, active, joined, ctx, env, max_in_flight_messages, pc, wmsg,
          sender_scope_key, interrupt_enabled, task_id, cancelled, completion,
          previous, conversation_histories, msg, has_target, draft_message_id,
          llm_result, outcome, calls, invocation, doctor, policy, state_file, now,
          pin_last, pin_log, security, plan_state, plan_last, jobs,
          cron_last, stream>>

\* ---------------------------------------------------------------- helpers
interruption_scope_key(m) == <<m.channel, m.sender>>
conversation_history_key(m) == <<m.channel, m.sender>>

ScopeKeys == {<<c, s>> : c \in Channels, s \in Senders}
HistoryKeys == {<<c, s>> : c \in Channels \cup {"unknown"}, s \in Senders}

Spawned == {w \in Workers : pc[w] # "idle"}
Finished == {w \in Workers : pc[w] = "done"}
Running == Spawned \ Finished

\* The runs explored.
\*   Pool: a well-behaved provider and channels, more messages than permits;
\*   Chain: the smallest run in which a waiting task is itself superseded: a
\*     running, a waiting and a superseding task of one scope, a permit for each;
\*   Pair: a task and the task that arrives while it runs, a permit for each,
\*     with a failing provider and failing sends on channels without drafts;
\*   Crash: a task and the task that arrives meanwhile, where a pipeline run may
\*     panic;
\*   Everything: one message through hooks that veto and rewrite, runtime
\*     commands, a failing provider, channels with drafts whose calls may fail.
Ctx(interrupt, hooks, channels) ==
    [interrupt_on_new_message |-> interrupt, hooks |-> hooks, channels_by_name |-> channels]
Env(budget, streaming, commands, faults, panics) ==
    [budget |-> budget, streaming |-> streaming, commands |-> commands, faults |-> faults,
     panics |-> panics]

PoolProfiles ==
    {[ctx |-> Ctx(i, FALSE, Channels), env |-> Env(MaxMessages, d, FALSE, FALSE, FALSE),
      max_in_flight_messages |-> MaxInFlight] : i \in BOOLEAN, d \in BOOLEAN}
ChainProfiles ==
    {[ctx |-> Ctx(TRUE, FALSE, {"telegram"}),
      env |-> Env(Cardinality(ChainRoles), TRUE, FALSE, FALSE, FALSE),
      max_in_flight_messages |-> Cardinality(ChainRoles)]}
PairProfiles ==
    {[ctx |-> Ctx(i, FALSE, Channels),
      env |-> Env(Cardinality(PairRoles), FALSE, FALSE, TRUE, FALSE),
      max_in_flight_messages |-> Cardinality(PairRoles)] : i \in BOOLEAN}
EverythingProfiles ==
    {[ctx |-> Ctx(i, TRUE, Channels), env |-> Env(1, TRUE, TRUE, TRUE, FALSE),
      max_in_flight_messages |-> MaxInFlight] : i \in BOOLEAN}
CrashProfiles ==
    {[ctx |-> Ctx(i, FALSE, {"telegram"}),
      env |-> Env(Cardinality(PairRoles), FALSE, FALSE, FALSE, TRUE),
      max_in_flight_messages |-> Cardinality(PairRoles)] : i \in BOOLEAN}
\* Flood: listeners of one channel with more to send than the bus holds, one
\* permit, a well-behaved provider.
FloodProfiles ==
    {[ctx |-> Ctx(FALSE, FALSE, {"cli"}),
      env |-> Env(BUS_CAPACITY + 1, FALSE, FALSE, FALSE, FALSE),
      max_in_flight_messages |-> 1]}
Profiles ==
    PoolProfiles \cup ChainProfiles \cup PairProfiles \cup EverythingProfiles \cup CrashProfiles

\* ------------------------------------------------------------------- Init
\* A subsystem that takes no part in a run stays in its parked state.
NoInvocation == [pc |-> "none"]
PluginParked == invocation = NoInvocation
NoDoctor == [pc |-> "none"]
DoctorParked == doctor = NoDoctor
NoCall == [op |-> "none"]
PinParked ==
    /\ policy = [pin_verification |-> FALSE]
    /\ state_file = [kind |-> "missing"]
    /\ now = 0
    /\ pin_last = NoCall
    /\ pin_log = [op |-> "none"]
PlanParked ==
    /\ security = [autonomy |-> "ReadOnly", max_actions_per_hour |-> 0]
    /\ plan_state = [tasks |-> <<>>, next_id |-> 1]
    /\ plan_last = NoCall
CronParked ==
    /\ jobs = <<>>
    /\ cron_last = NoCall
NoStream == [pc |-> "none"]
StreamParked == stream = NoStream

\* The state run_message_dispatch_loop starts in, for one of the given profiles.
DispatchInit(profiles) ==
    /\ bus = <<>>
    /\ busClosed = FALSE
    /\ sent = 0
    /\ loopPc = "recv"
    /\ loopMsg = NoMsg
    /\ \E p \in profiles :
          /\ ctx = p.ctx
          /\ env = p.env
          /\ max_in_flight_messages = p.max_in_flight_messages
          /\ permits = p.max_in_flight_messages
          /\ pc = [w \in 1..p.env.budget |-> "idle"]
          /\ wmsg = [w \in 1..p.env.budget |-> NoMsg]
          /\ sender_scope_key = [w \in 1..p.env.budget |-> NoKey]
          /\ interrupt_enabled = [w \in 1..p.env.budget |-> FALSE]
          /\ task_id = [w \in 1..p.env.budget |-> 0]
          /\ cancelled = [w \in 1..p.env.budget |-> FALSE]
          /\ completion = [w \in 1..p.env.budget |-> FALSE]
          /\ previous = [w \in 1..p.env.budget |-> 0]
          /\ msg = [w \in 1..p.env.budget |-> NoMsg]
          /\ has_target = [w \in 1..p.env.budget |-> FALSE]
          /\ draft_message_id = [w \in 1..p.env.budget |-> FALSE]
          /\ llm_result = [w \in 1..p.env.budget |-> "none"]
          /\ outcome = [w \in 1..p.env.budget |-> "none"]
          /\ calls = [w \in 1..p.env.budget |-> <<>>]
    /\ task_sequence = 1
    /\ in_flight_by_sender = [k \in ScopeKeys |-> NoEntry]
    /\ active = 0
    /\ joined = {}
    /\ conversation_histories = [k \in HistoryKeys |-> <<>>]

\* No channel is configured: the dispatch loop has no listener and no worker.
ParkedProfiles ==
    {[ctx |-> Ctx(FALSE, FALSE, {}), env |-> Env(0, FALSE, FALSE, FALSE, FALSE),
      max_in_flight_messages |-> 1]}
DispatchParked == DispatchInit(ParkedProfiles)

InitWith(profiles) ==
    /\ DispatchInit(profiles)
    /\ PluginParked
    /\ DoctorParked
    /\ PinParked
    /\ PlanParked
    /\ CronParked
    /\ StreamParked

Init == InitWith(Profiles)

\* ----------------------------------------------------- listeners and bus
\* A supervised listener forwards one inbound message through its tx clone.
ListenerSend(c, s, t) ==
    /\ ~busClosed
    /\ c \in ctx.channels_by_name
    /\ sent < env.budget
    /\ Len(bus) < BUS_CAPACITY
    /\ bus' = Append(bus, [id |-> sent + 1, channel |-> c, sender |-> s,
                           reply_target |-> s, content |-> t])
    /\ sent' = sent + 1
    /\ UNCHANGED <<busClosed, loopPc, loopMsg, permits, task_sequence, in_flight_by_sender, active,
                   joined, cfgVars, pc, wmsg, wrapVars, cancelled, completion, pipeVars>>

\* The last listener ends and drops its tx clone.
BusClose ==
    /\ ~busClosed
    /\ busClosed' = TRUE
    /\ UNCHANGED <<bus, sent, loopPc, loopMsg, permits, task_sequence, in_flight_by_sender, active,
                   joined, cfgVars, pc, wmsg, wrapVars, cancelled, completion, pipeVars>>

\* ---------------------------------------------------------- dispatch loop
\* LoopRecv as it would be if the newest message were taken first.
LoopRecvTakesLast ==
    /\ loopPc = "recv"
    /\ bus # <<>>
    /\ loopMsg' = bus[Len(bus)]
    /\ bus' = SubSeq(bus, 1, Len(bus) - 1)
    /\ loopPc' = "acquire"
    /\ UNCHANGED <<busClosed, sent, permits, task_sequence, in_flight_by_sender, active,
                   joined, cfgVars, pc, wmsg, wrapVars, cancelled, completion, pipeVars>>

\* while let Some(msg) = rx.recv().await
LoopRecv ==
    /\ loopPc = "recv"
    /\ bus # <<>>
    /\ loopMsg' = Head(bus)
    /\ bus' = Tail(bus)
    /\ loopPc' = "acquire"
    /\ UNCHANGED <<busClosed, sent, permits, task_sequence, in_flight_by_sender, active,
                   joined, cfgVars, pc, wmsg, wrapVars, cancelled, completion, pipeVars>>

\* rx.recv() returns None: leave the while loop
LoopBusClosed ==
    /\ loopPc = "recv"
    /\ bus = <<>>
    /\ busClosed
    /\ loopPc' = "drain"
    /\ UNCHANGED <<bus, busClosed, sent, loopMsg, permits, task_sequence, in_flight_by_sender, active,
                   joined, cfgVars, pc, wmsg, wrapVars, cancelled, completion, pipeVars>>

\* LoopSpawn as it would be if the worker were spawned without holding a permit.
LoopSpawnWithoutPermit ==
    /\ loopPc = "acquire"
    /\ permits' = permits - 1
    /\ pc' = [pc EXCEPT ![loopMsg.id] = "start"]
    /\ wmsg' = [wmsg EXCEPT ![loopMsg.id] = loopMsg]
    /\ joined' = Finished
    /\ loopMsg' = NoMsg
    /\ loopPc' = "recv"
    /\ UNCHANGED <<bus, busClosed, sent, task_sequence, in_flight_by_sender, active,
                   cfgVars, wrapVars, cancelled, completion, pipeVars>>

\* acquire_owned().await, workers.spawn(..), then the try_join_next harvest
LoopSpawn ==
    /\ loopPc = "acquire"
    /\ permits > 0
    /\ permits' = permits - 1
    /\ pc' = [pc EXCEPT ![loopMsg.id] = "start"]
    /\ wmsg' = [wmsg EXCEPT ![loopMsg.id] = loopMsg]
    /\ joined' = Finished
    /\ loopMsg' = NoMsg
    /\ loopPc' = "recv"
    /\ UNCHANGED <<bus, busClosed, sent, task_sequence, in_flight_by_sender, active,
                   cfgVars, wrapVars, cancelled, completion, pipeVars>>

\* while let Some(result) = workers.join_next().await
LoopJoinNext ==
    /\ loopPc = "drain"
    /\ \E w \in Finished \ joined : joined' = joined \cup {w}
    /\ UNCHANGED <<bus, busClosed, sent, loopPc, loopMsg, permits, task_sequence,
                   in_flight_by_sender, active, cfgVars, pc, wmsg, wrapVars, cancelled, completion,
                   pipeVars>>

\* join_next() returns None: the JoinSet is empty and the loop function returns
LoopReturn ==
    /\ loopPc = "drain"
    /\ Spawned \subseteq joined
    /\ loopPc' = "returned"
    /\ UNCHANGED <<bus, busClosed, sent, loopMsg, permits, task_sequence, in_flight_by_sender, active,
                   joined, cfgVars, pc, wmsg, wrapVars, cancelled, completion, pipeVars>>

\* ------------------------------------------------------------ worker task
\* Where the calls for message m go: the channel registered under m.channel,
\* addressed to m.reply_target.
Target(m) == [channel |-> m.channel, to |-> m.reply_target]

\* A channel call: result is "ok" or "err" where the code looks at it, else "ignored".
Call(op, text, result, target) ==
    [op |-> op, text |-> text, result |-> result, channel |-> target.channel, to |-> target.to]
Turn(role, content) == [role |-> role, content |-> content]

\* The position a worker moves to when process_channel_message returns.
AfterProcess(w) == IF interrupt_enabled[w] THEN "cleanup" ELSE "markdone"

\* WStart as it would be if the flag alone decided on interruption.
WStartOnAnyChannel(w) ==
    /\ pc[w] = "start"
    /\ interrupt_enabled' = [interrupt_enabled EXCEPT ![w] = ctx.interrupt_on_new_message]
    /\ sender_scope_key' = [sender_scope_key EXCEPT ![w] = interruption_scope_key(wmsg[w])]
    /\ task_id' = [task_id EXCEPT ![w] = task_sequence]
    /\ task_sequence' = task_sequence + 1
    /\ pc' = [pc EXCEPT ![w] = IF ctx.interrupt_on_new_message THEN "insert" ELSE "begin"]
    /\ UNCHANGED <<loopVars, permits, in_flight_by_sender, active, cfgVars, wmsg, previous,
                   cancelled, completion, pipeVars>>

\* let _permit = permit; .. let task_id = task_sequence.fetch_add(1, Relaxed);
WStart(w) ==
    /\ pc[w] = "start"
    /\ interrupt_enabled' = [interrupt_enabled EXCEPT ![w] =
            ctx.interrupt_on_new_message /\ wmsg[w].channel = "telegram"]
    /\ sender_scope_key' = [sender_scope_key EXCEPT ![w] = interruption_scope_key(wmsg[w])]
    /\ task_id' = [task_id EXCEPT ![w] = task_sequence]
    /\ task_sequence' = task_sequence + 1
    /\ pc' = [pc EXCEPT ![w] =
            IF ctx.interrupt_on_new_message /\ wmsg[w].channel = "telegram"
            THEN "insert" ELSE "begin"]
    /\ UNCHANGED <<loopVars, permits, in_flight_by_sender, active, cfgVars, wmsg, previous,
                   cancelled, completion, pipeVars>>

\* WInsert as it would be if the swapped-out entry were dropped unseen.
WInsertDropsPrevious(w) ==
    /\ pc[w] = "inserting"
    /\ previous' = [previous EXCEPT ![w] = 0]
    /\ in_flight_by_sender' = [in_flight_by_sender EXCEPT ![sender_scope_key[w]] =
            [task_id |-> task_id[w], owner |-> w]]
    /\ active' = 0
    /\ pc' = [pc EXCEPT ![w] = "begin"]
    /\ UNCHANGED <<loopVars, permits, task_sequence, cfgVars, wmsg, sender_scope_key,
                   interrupt_enabled, task_id, cancelled, completion, pipeVars>>

\* let mut active = in_flight.lock().await; (line 638)
WLockForInsert(w) ==
    /\ pc[w] = "insert"
    /\ active = 0
    /\ active' = w
    /\ pc' = [pc EXCEPT ![w] = "inserting"]
    /\ UNCHANGED <<loopVars, permits, task_sequence, in_flight_by_sender, cfgVars, wmsg,
                   wrapVars, cancelled, completion, pipeVars>>

\* WInsert as it would be if the guard lived on after the block.
WInsertKeepsLock(w) ==
    /\ pc[w] = "inserting"
    /\ previous' = [previous EXCEPT ![w] = in_flight_by_sender[sender_scope_key[w]].owner]
    /\ in_flight_by_sender' = [in_flight_by_sender EXCEPT ![sender_scope_key[w]] =
            [task_id |-> task_id[w], owner |-> w]]
    /\ active' = IF in_flight_by_sender[sender_scope_key[w]].owner # 0 THEN w ELSE 0
    /\ pc' = [pc EXCEPT ![w] =
            IF in_flight_by_sender[sender_scope_key[w]].owner # 0 THEN "cancel_previous" ELSE "begin"]
    /\ UNCHANGED <<loopVars, permits, task_sequence, cfgVars, wmsg, sender_scope_key,
                   interrupt_enabled, task_id, cancelled, completion, pipeVars>>

\* let previous = { .. active.insert(scope, state) }; the guard is dropped at
\* the end of the block
WInsert(w) ==
    /\ pc[w] = "inserting"
    /\ previous' = [previous EXCEPT ![w] = in_flight_by_sender[sender_scope_key[w]].owner]
    /\ in_flight_by_sender' = [in_flight_by_sender EXCEPT ![sender_scope_key[w]] =
            [task_id |-> task_id[w], owner |-> w]]
    /\ active' = 0
    /\ pc' = [pc EXCEPT ![w] =
            IF in_flight_by_sender[sender_scope_key[w]].owner # 0 THEN "cancel_previous" ELSE "begin"]
    /\ UNCHANGED <<loopVars, permits, task_sequence, cfgVars, wmsg, sender_scope_key,
                   interrupt_enabled, task_id, cancelled, completion, pipeVars>>

\* previous.cancellation.cancel();
WCancelPrevious(w) ==
    /\ pc[w] = "cancel_previous"
    /\ cancelled' = [cancelled EXCEPT ![previous[w]] = TRUE]
    /\ pc' = [pc EXCEPT ![w] = "wait_previous"]
    /\ UNCHANGED <<loopVars, permits, task_sequence, in_flight_by_sender, active, cfgVars, wmsg,
                   wrapVars, completion, pipeVars>>

\* WWaitPrevious as it would be if the wait returned at once.
WWaitPreviousReturnsAtOnce(w) ==
    /\ pc[w] = "wait_previous"
    /\ pc' = [pc EXCEPT ![w] = "begin"]
    /\ UNCHANGED <<loopVars, permits, task_sequence, in_flight_by_sender, active, cfgVars, wmsg,
                   wrapVars, cancelled, completion, pipeVars>>

\* previous.completion.wait().await;
WWaitPrevious(w) ==
    /\ pc[w] = "wait_previous"
    /\ completion[previous[w]]
    /\ pc' = [pc EXCEPT ![w] = "begin"]
    /\ UNCHANGED <<loopVars, permits, task_sequence, in_flight_by_sender, active, cfgVars, wmsg,
                   wrapVars, cancelled, completion, pipeVars>>

\* let mut active = in_flight.lock().await; (line 663)
WLockForCleanup(w) ==
    /\ pc[w] = "cleanup"
    /\ active = 0
    /\ active' = w
    /\ pc' = [pc EXCEPT ![w] = "cleaning"]
    /\ UNCHANGED <<loopVars, permits, task_sequence, in_flight_by_sender, cfgVars, wmsg,
                   wrapVars, cancelled, completion, pipeVars>>

\* WCleanup as it would be if the entry were removed without the task_id test.
WCleanupRemovesAnyEntry(w) ==
    /\ pc[w] = "cleaning"
    /\ in_flight_by_sender' = [in_flight_by_sender EXCEPT ![sender_scope_key[w]] = NoEntry]
    /\ active' = 0
    /\ pc' = [pc EXCEPT ![w] = "markdone"]
    /\ UNCHANGED <<loopVars, permits, task_sequence, cfgVars, wmsg, wrapVars,
                   cancelled, completion, pipeVars>>

\* if active.get(&scope).is_some_and(|s| s.task_id == task_id) { active.remove(&scope); }
WCleanup(w) ==
    /\ pc[w] = "cleaning"
    /\ in_flight_by_sender' =
            IF in_flight_by_sender[sender_scope_key[w]].task_id = task_id[w]
            THEN [in_flight_by_sender EXCEPT ![sender_scope_key[w]] = NoEntry]
            ELSE in_flight_by_sender
    /\ active' = 0
    /\ pc' = [pc EXCEPT ![w] = "markdone"]
    /\ UNCHANGED <<loopVars, permits, task_sequence, cfgVars, wmsg, wrapVars,
                   cancelled, completion, pipeVars>>

\* completion.mark_done(); the task ends and drops its permit
WMarkDone(w) ==
    /\ pc[w] = "markdone"
    /\ completion' = [completion EXCEPT ![w] = TRUE]
    /\ permits' = permits + 1
    /\ pc' = [pc EXCEPT ![w] = "done"]
    /\ UNCHANGED <<loopVars, task_sequence, in_flight_by_sender, active, cfgVars, wmsg, wrapVars,
                   cancelled, pipeVars>>

\* process_channel_message panics: the task unwinds, its permit is dropped with
\* it, and the lines after the call (entry removal, mark_done) are never run.
WPanic(w) ==
    /\ env.panics
    /\ pc[w] \in {"prepare", "exec", "handle"}
    /\ outcome' = [outcome EXCEPT ![w] = "panicked"]
    /\ permits' = permits + 1
    /\ pc' = [pc EXCEPT ![w] = "done"]
    /\ UNCHANGED <<loopVars, task_sequence, in_flight_by_sender, active, cfgVars, wmsg, wrapVars,
                   cancelled, completion, conversation_histories, msg, has_target,
                   draft_message_id, llm_result, calls>>

\* --------------------------------------------------- history (ctx helpers)
append_sender_turn(h, key, turn) == [h EXCEPT ![key] = Append(@, turn)]

\* Index of the most recent user turn with the given content, 0 if none.
LastUserTurn(turns, content) ==
    LET hits == {i \in 1..Len(turns) : turns[i].role = "user" /\ turns[i].content = content}
    IN IF hits = {} THEN 0 ELSE CHOOSE i \in hits : \A j \in hits : j <= i

RemoveAt(turns, i) == SubSeq(turns, 1, i - 1) \o SubSeq(turns, i + 1, Len(turns))

rollback_orphan_user_turn(h, key, content) ==
    IF LastUserTurn(h[key], content) = 0 THEN h
    ELSE [h EXCEPT ![key] = RemoveAt(@, LastUserTurn(h[key], content))]

\* ------------------------------------------------ process_channel_message
\* e.to_string() of a provider error: it carries a credential and an API error body.
RAW_ERROR == "raw_error"

\* providers::sanitize_api_error: the text with credentials and error bodies scrubbed.
sanitize_api_error(text) == IF text = RAW_ERROR THEN "sanitized_error" ELSE text

\* What on_message_received may hand back in Continue(modified): the message
\* as it came, one moved to a channel that is not registered, one with another
\* content and reply target.
HookModified(m) ==
    {m, [m EXCEPT !.channel = "unknown"],
        [m EXCEPT !.content = "rewritten", !.reply_target = "elsewhere"]}

\* DeliverNotice as it would be if the open draft were ignored.
DeliverNoticeIgnoresDraft(w, text) ==
    IF ~has_target[w] THEN <<>> ELSE <<Call("send", text, "ignored", Target(msg[w]))>>

\* The delivery of a failure notice: into the open draft, else a fresh send.
DeliverNotice(w, text) ==
    IF ~has_target[w] THEN <<>>
    ELSE IF draft_message_id[w] THEN <<Call("finalize_draft", text, "ignored", Target(msg[w]))>>
    ELSE <<Call("send", text, "ignored", Target(msg[w]))>>

\* CancelDraft as it would be if a cancelled run left its draft open.
CancelDraftLeavesDraftOpen(w) == <<>>

\* The cancel_draft call of both cancellation branches.
CancelDraft(w) ==
    IF has_target[w] /\ draft_message_id[w] THEN <<Call("cancel_draft", "", "ignored", Target(msg[w]))>> ELSE <<>>

\* Swap the received reaction for the final one.
SwapReaction(w, emoji) ==
    IF has_target[w]
    THEN <<Call("remove_reaction", "eyes", "ignored", Target(msg[w])), Call("add_reaction", emoji, "ignored", Target(msg[w]))>>
    ELSE <<>>

\* WBegin as it would be without the check of the token at its entry.
WBeginWithoutEntryCheck(w) ==
    /\ pc[w] = "begin"
    /\ \/ /\ ctx.hooks
          /\ outcome' = [outcome EXCEPT ![w] = "dropped"]
          /\ pc' = [pc EXCEPT ![w] = AfterProcess(w)]
          /\ UNCHANGED <<msg, has_target, calls>>
       \/ /\ \E m \in (IF ctx.hooks THEN HookModified(wmsg[w]) ELSE {wmsg[w]}) :
                /\ msg' = [msg EXCEPT ![w] = m]
                /\ has_target' = [has_target EXCEPT ![w] = m.channel \in ctx.channels_by_name]
                /\ \E step \in {"proceed"} \cup (IF env.commands THEN {"command"} ELSE {})
                                           \cup (IF env.faults THEN {"provider_init_failed"} ELSE {}) :
                      /\ outcome' = [outcome EXCEPT ![w] = IF step = "proceed" THEN "none" ELSE step]
                      /\ pc' = [pc EXCEPT ![w] = IF step = "proceed" THEN "prepare" ELSE AfterProcess(w)]
                      /\ calls' = [calls EXCEPT ![w] =
                            IF step = "proceed" \/ m.channel \notin ctx.channels_by_name THEN @
                            ELSE IF step = "command" THEN Append(@, Call("send", "command_reply", "ignored", Target(m)))
                            ELSE Append(@, Call("send", sanitize_api_error(RAW_ERROR), "ignored", Target(m)))]
    /\ UNCHANGED <<loopVars, permits, task_sequence, in_flight_by_sender, active, cfgVars, wmsg, wrapVars,
                   cancelled, completion, conversation_histories, draft_message_id, llm_result>>

\* Lines 8-76: entry check, on_message_received, runtime commands, provider lookup.
WBegin(w) ==
    /\ pc[w] = "begin"
    /\ \/ /\ cancelled[w]
          /\ outcome' = [outcome EXCEPT ![w] = "skipped"]
          /\ pc' = [pc EXCEPT ![w] = AfterProcess(w)]
          /\ UNCHANGED <<msg, has_target, calls>>
       \/ /\ ~cancelled[w]
          /\ ctx.hooks
          /\ outcome' = [outcome EXCEPT ![w] = "dropped"]
          /\ pc' = [pc EXCEPT ![w] = AfterProcess(w)]
          /\ UNCHANGED <<msg, has_target, calls>>
       \/ /\ ~cancelled[w]
          /\ \E m \in (IF ctx.hooks THEN HookModified(wmsg[w]) ELSE {wmsg[w]}) :
                /\ msg' = [msg EXCEPT ![w] = m]
                /\ has_target' = [has_target EXCEPT ![w] = m.channel \in ctx.channels_by_name]
                /\ \E step \in {"proceed"} \cup (IF env.commands THEN {"command"} ELSE {})
                                           \cup (IF env.faults THEN {"provider_init_failed"} ELSE {}) :
                      /\ outcome' = [outcome EXCEPT ![w] = IF step = "proceed" THEN "none" ELSE step]
                      /\ pc' = [pc EXCEPT ![w] = IF step = "proceed" THEN "prepare" ELSE AfterProcess(w)]
                      /\ calls' = [calls EXCEPT ![w] =
                            IF step = "proceed" \/ m.channel \notin ctx.channels_by_name THEN @
                            ELSE IF step = "command" THEN Append(@, Call("send", "command_reply", "ignored", Target(m)))
                            ELSE Append(@, Call("send", sanitize_api_error(RAW_ERROR), "ignored", Target(m)))]
    /\ UNCHANGED <<loopVars, permits, task_sequence, in_flight_by_sender, active, cfgVars, wmsg, wrapVars,
                   cancelled, completion, conversation_histories, draft_message_id, llm_result>>

\* WPrepare as it would be if it went on with the message as it came in, not
\* with the one on_message_received handed back.
WPrepareUsesOriginalMessage(w) ==
    /\ pc[w] = "prepare"
    /\ conversation_histories' = append_sender_turn(conversation_histories,
            conversation_history_key(wmsg[w]), Turn("user", wmsg[w].content))
    /\ \E use_streaming \in {has_target[w] /\ env.streaming} :
       \E id \in (IF use_streaming THEN (IF env.faults THEN BOOLEAN ELSE {TRUE}) ELSE {FALSE}) :
          /\ draft_message_id' = [draft_message_id EXCEPT ![w] = id]
          /\ calls' = [calls EXCEPT ![w] =
                @ \o (IF use_streaming THEN <<Call("send_draft", "...", IF id THEN "ok" ELSE "err", Target(wmsg[w]))>> ELSE <<>>)
                  \o (IF has_target[w] THEN <<Call("add_reaction", "eyes", "ignored", Target(wmsg[w]))>> ELSE <<>>)]
    /\ pc' = [pc EXCEPT ![w] = "exec"]
    /\ UNCHANGED <<loopVars, permits, task_sequence, in_flight_by_sender, active, cfgVars, wmsg, wrapVars,
                   cancelled, completion, msg, has_target, llm_result, outcome>>

\* Lines 93-217: user turn, draft placeholder, received reaction.
WPrepare(w) ==
    /\ pc[w] = "prepare"
    /\ conversation_histories' = append_sender_turn(conversation_histories,
            conversation_history_key(msg[w]), Turn("user", msg[w].content))
    /\ \E use_streaming \in {has_target[w] /\ env.streaming} :
       \E id \in (IF use_streaming THEN (IF env.faults THEN BOOLEAN ELSE {TRUE}) ELSE {FALSE}) :
          /\ draft_message_id' = [draft_message_id EXCEPT ![w] = id]
          /\ calls' = [calls EXCEPT ![w] =
                @ \o (IF use_streaming THEN <<Call("send_draft", "...", IF id THEN "ok" ELSE "err", Target(msg[w]))>> ELSE <<>>)
                  \o (IF has_target[w] THEN <<Call("add_reaction", "eyes", "ignored", Target(msg[w]))>> ELSE <<>>)]
    /\ pc' = [pc EXCEPT ![w] = "exec"]
    /\ UNCHANGED <<loopVars, permits, task_sequence, in_flight_by_sender, active, cfgVars, wmsg, wrapVars,
                   cancelled, completion, msg, has_target, llm_result, outcome>>

\* The Err(e) results of the tool loop: cancellation-shaped, context-window
\* overflow, ProviderCapabilityError with capability "vision" (err_capability),
\* ProviderCapabilityError with another capability, any other error.
ErrResults == {"err_cancelled", "err_overflow", "err_capability", "err_capability_other", "err_other"}

\* The cancellation-shaped errors run_tool_call_loop can return: it is handed
\* the token, and gives up with such an error only once the token is cancelled.
ToolLoopCancelled(w) == IF cancelled[w] THEN {"err_cancelled"} ELSE {}

\* What the select over the token and the timed tool loop can yield.
LlmResults(w) ==
    {"ok"}
        \cup (IF env.faults THEN {"timeout"} \cup (ErrResults \ {"err_cancelled"}) ELSE {})
        \cup (IF cancelled[w] THEN {"cancelled"} ELSE {})
        \cup ToolLoopCancelled(w)

\* Lines 224-264: the provider call racing cancellation and the timeout.
WExec(w) ==
    /\ pc[w] = "exec"
    /\ \E r \in LlmResults(w) : llm_result' = [llm_result EXCEPT ![w] = r]
    /\ pc' = [pc EXCEPT ![w] = "handle"]
    /\ UNCHANGED <<loopVars, permits, task_sequence, in_flight_by_sender, active, cfgVars, wmsg, wrapVars,
                   cancelled, completion, conversation_histories, msg, has_target,
                   draft_message_id, outcome, calls>>

\* Best-effort compaction: only the most recent turns are kept.
compact_sender_history(h, key) ==
    IF Len(h[key]) <= CompactKeep THEN h
    ELSE [h EXCEPT ![key] = SubSeq(@, Len(@) - CompactKeep + 1, Len(@))]

FAILED_SENTINEL == "[Task failed - not continuing this request]"
TIMEOUT_SENTINEL == "[Task timed out - not continuing this request]"

\* is_tool_loop_cancelled(&e) || cancellation_token.is_cancelled()
CancelShaped(w) == llm_result[w] = "err_cancelled" \/ cancelled[w]

pipeFrame == <<loopVars, permits, task_sequence, in_flight_by_sender, active, cfgVars, wmsg, wrapVars,
               cancelled, completion, msg, has_target, draft_message_id, llm_result>>

\* HandleCancelled as it would be if it closed the turn the way a timeout does.
HandleCancelledClosesTurn(w) ==
    /\ pc[w] = "handle"
    /\ \/ llm_result[w] = "cancelled"
       \/ llm_result[w] \in ErrResults
            /\ CancelShaped(w)
    /\ conversation_histories' = append_sender_turn(conversation_histories,
            conversation_history_key(msg[w]), Turn("assistant", FAILED_SENTINEL))
    /\ calls' = [calls EXCEPT ![w] = @ \o CancelDraft(w) \o SwapReaction(w, "warning")]
    /\ outcome' = [outcome EXCEPT ![w] = "cancelled"]
    /\ pc' = [pc EXCEPT ![w] = AfterProcess(w)]
    /\ UNCHANGED pipeFrame

\* Lines 272-298 and 428-454: superseded by a newer message.
HandleCancelled(w) ==
    /\ pc[w] = "handle"
    /\ \/ llm_result[w] = "cancelled"
       \/ llm_result[w] \in ErrResults
            /\ CancelShaped(w)
    /\ calls' = [calls EXCEPT ![w] = @ \o CancelDraft(w) \o SwapReaction(w, "warning")]
    /\ outcome' = [outcome EXCEPT ![w] = "cancelled"]
    /\ pc' = [pc EXCEPT ![w] = AfterProcess(w)]
    /\ UNCHANGED <<pipeFrame, conversation_histories>>

\* Lines 299-314: on_message_sending vetoes the reply.
HandleSuppressed(w) ==
    /\ pc[w] = "handle"
    /\ llm_result[w] = "ok"
    /\ ctx.hooks
    /\ outcome' = [outcome EXCEPT ![w] = "suppressed"]
    /\ pc' = [pc EXCEPT ![w] = AfterProcess(w)]
    /\ UNCHANGED <<pipeFrame, conversation_histories, calls>>

\* DeliverReply as it would be if the send followed every finalize_draft.
DeliverReplyAlwaysSends(w, text, finalize_ok) ==
    IF ~has_target[w] THEN <<>>
    ELSE IF draft_message_id[w]
    THEN <<Call("finalize_draft", text, IF finalize_ok THEN "ok" ELSE "err", Target(msg[w])),
           Call("send", text, "ignored", Target(msg[w]))>>
    ELSE <<Call("send", text, "ignored", Target(msg[w]))>>

\* The delivery of the reply: finalize the draft, falling back to a send.
DeliverReply(w, text, finalize_ok) ==
    IF ~has_target[w] THEN <<>>
    ELSE IF draft_message_id[w]
    THEN IF finalize_ok THEN <<Call("finalize_draft", text, "ok", Target(msg[w]))>>
         ELSE <<Call("finalize_draft", text, "err", Target(msg[w])), Call("send", text, "ignored", Target(msg[w]))>>
    ELSE <<Call("send", text, "ignored", Target(msg[w]))>>

\* The reply text: the provider's, or the one on_message_sending put in its place.
Replies == {"reply", "hook_reply"}

\* The (channel, recipient) on_message_sending may hand back with the content:
\* the message's own, or somewhere else.
HookRoutes(m) ==
    {Target(m), [channel |-> m.channel, to |-> "attacker"], [channel |-> "cli", to |-> "attacker"]}

\* HandleSuccess as it would be if the hook's channel and recipient were honoured.
HandleSuccessHonoursHookRoute(w) ==
    /\ pc[w] = "handle"
    /\ llm_result[w] = "ok"
    /\ \E text \in (IF ctx.hooks THEN Replies ELSE {"reply"}) :
       \E route \in (IF ctx.hooks THEN HookRoutes(msg[w]) ELSE {Target(msg[w])}) :
       \E finalize_ok \in (IF has_target[w] /\ draft_message_id[w] /\ env.faults THEN BOOLEAN ELSE {TRUE}) :
          /\ conversation_histories' = append_sender_turn(conversation_histories,
                conversation_history_key(msg[w]), Turn("assistant", text))
          /\ calls' = [calls EXCEPT ![w] =
                @ \o [i \in 1..Len(DeliverReply(w, text, finalize_ok)) |->
                        [DeliverReply(w, text, finalize_ok)[i]
                            EXCEPT !.channel = route.channel, !.to = route.to]]
                  \o SwapReaction(w, "check")]
    /\ outcome' = [outcome EXCEPT ![w] = "success"]
    /\ pc' = [pc EXCEPT ![w] = AfterProcess(w)]
    /\ UNCHANGED pipeFrame

\* Lines 299-426 and 594-602: the reply is recorded and delivered. The hook's
\* content is applied; the channel and recipient it returns are only logged.
HandleSuccess(w) ==
    /\ pc[w] = "handle"
    /\ llm_result[w] = "ok"
    /\ \E text \in (IF ctx.hooks THEN Replies ELSE {"reply"}) :
       \E route \in (IF ctx.hooks THEN HookRoutes(msg[w]) ELSE {Target(msg[w])}) :
       \E finalize_ok \in (IF has_target[w] /\ draft_message_id[w] /\ env.faults THEN BOOLEAN ELSE {TRUE}) :
          /\ conversation_histories' = append_sender_turn(conversation_histories,
                conversation_history_key(msg[w]), Turn("assistant", text))
          /\ calls' = [calls EXCEPT ![w] =
                @ \o DeliverReply(w, text, finalize_ok) \o SwapReaction(w, "check")]
    /\ outcome' = [outcome EXCEPT ![w] = "success"]
    /\ pc' = [pc EXCEPT ![w] = AfterProcess(w)]
    /\ UNCHANGED pipeFrame

\* Lines 455-494: context window overflow.
HandleOverflow(w) ==
    /\ pc[w] = "handle"
    /\ llm_result[w] = "err_overflow"
    /\ ~CancelShaped(w)
    /\ conversation_histories' =
            compact_sender_history(conversation_histories, conversation_history_key(msg[w]))
    /\ calls' = [calls EXCEPT ![w] =
            @ \o DeliverNotice(w, "overflow_notice") \o SwapReaction(w, "warning")]
    /\ outcome' = [outcome EXCEPT ![w] = "overflow"]
    /\ pc' = [pc EXCEPT ![w] = AfterProcess(w)]
    /\ UNCHANGED pipeFrame

\* HandleError as it would be if every error closed the turn with the sentinel.
HandleErrorAlwaysClosesTurn(w) ==
    /\ pc[w] = "handle"
    /\ llm_result[w] \in ErrResults \ {"err_cancelled", "err_overflow"}
    /\ ~CancelShaped(w)
    /\ conversation_histories' = append_sender_turn(conversation_histories,
            conversation_history_key(msg[w]), Turn("assistant", FAILED_SENTINEL))
    /\ calls' = [calls EXCEPT ![w] =
            @ \o DeliverNotice(w, RAW_ERROR) \o SwapReaction(w, "warning")]
    /\ outcome' = [outcome EXCEPT ![w] = "error"]
    /\ pc' = [pc EXCEPT ![w] = AfterProcess(w)]
    /\ UNCHANGED pipeFrame

\* Lines 495-543: any other provider error.
HandleError(w) ==
    /\ pc[w] = "handle"
    /\ llm_result[w] \in ErrResults \ {"err_cancelled", "err_overflow"}
    /\ ~CancelShaped(w)
    /\ LET key == conversation_history_key(msg[w])
           rolled_back == /\ llm_result[w] = "err_capability"
                          /\ LastUserTurn(conversation_histories[key], msg[w].content) # 0
       IN conversation_histories' =
            IF rolled_back
            THEN rollback_orphan_user_turn(conversation_histories, key, msg[w].content)
            ELSE append_sender_turn(conversation_histories, key, Turn("assistant", FAILED_SENTINEL))
    /\ calls' = [calls EXCEPT ![w] =
            @ \o DeliverNotice(w, RAW_ERROR) \o SwapReaction(w, "warning")]
    /\ outcome' = [outcome EXCEPT ![w] = "error"]
    /\ pc' = [pc EXCEPT ![w] = AfterProcess(w)]
    /\ UNCHANGED pipeFrame

\* HandleTimeout as it would be if the timed-out request were left unclosed.
HandleTimeoutLeavesTurnOpen(w) ==
    /\ pc[w] = "handle"
    /\ llm_result[w] = "timeout"
    /\ calls' = [calls EXCEPT ![w] =
            @ \o DeliverNotice(w, "timeout_notice") \o SwapReaction(w, "warning")]
    /\ outcome' = [outcome EXCEPT ![w] = "timeout"]
    /\ pc' = [pc EXCEPT ![w] = AfterProcess(w)]
    /\ UNCHANGED <<pipeFrame, conversation_histories>>

\* Lines 545-591: the timeout budget elapsed.
HandleTimeout(w) ==
    /\ pc[w] = "handle"
    /\ llm_result[w] = "timeout"
    /\ conversation_histories' = append_sender_turn(conversation_histories,
            conversation_history_key(msg[w]), Turn("assistant", TIMEOUT_SENTINEL))
    /\ calls' = [calls EXCEPT ![w] =
            @ \o DeliverNotice(w, "timeout_notice") \o SwapReaction(w, "warning")]
    /\ outcome' = [outcome EXCEPT ![w] = "timeout"]
    /\ pc' = [pc EXCEPT ![w] = AfterProcess(w)]
    /\ UNCHANGED pipeFrame

\* ------------------------------------------------------------------ Next
Next ==
    \/ \E c \in Channels, s \in Senders, t \in Contents : ListenerSend(c, s, t)
    \/ BusClose
    \/ LoopRecv
    \/ LoopBusClosed
    \/ LoopSpawn
    \/ LoopJoinNext
    \/ LoopReturn
    \/ \E w \in Workers : WStart(w)
    \/ \E w \in Workers : WLockForInsert(w)
    \/ \E w \in Workers : WInsert(w)
    \/ \E w \in Workers : WCancelPrevious(w)
    \/ \E w \in Workers : WWaitPrevious(w)
    \/ \E w \in Workers : WBegin(w)
    \/ \E w \in Workers : WPrepare(w)
    \/ \E w \in Workers : WExec(w)
    \/ \E w \in Workers : HandleCancelled(w)
    \/ \E w \in Workers : HandleSuppressed(w)
    \/ \E w \in Workers : HandleSuccess(w)
    \/ \E w \in Workers : HandleOverflow(w)
    \/ \E w \in Workers : HandleError(w)
    \/ \E w \in Workers : HandleTimeout(w)
    \/ \E w \in Workers : WLockForCleanup(w)
    \/ \E w \in Workers : WCleanup(w)
    \/ \E w \in Workers : WMarkDone(w)
    \/ \E w \in Workers : WPanic(w)

Spec == Init /\ [][Next]_vars

\* The flooded bus: the steps a run of the Flood profile can take while its
\* listeners are alive.
BusInit == InitWith(FloodProfiles)

BusNext ==
    \/ \E c \in Channels, s \in Senders, t \in Contents : ListenerSend(c, s, t)
    \/ LoopRecv
    \/ LoopSpawn
    \/ \E w \in Workers : WStart(w)
    \/ \E w \in Workers : WBegin(w)
    \/ \E w \in Workers : WPrepare(w)
    \/ \E w \in Workers : WExec(w)
    \/ \E w \in Workers : HandleSuccess(w)
    \/ \E w \in Workers : WMarkDone(w)

BusSpec == BusInit /\ [][BusNext]_vars

\* The steps of the dispatch loop and of the worker tasks that the runtime takes
\* when they are ready: everything but the listeners and the panics.
Scheduled ==
    \/ LoopRecv
    \/ LoopBusClosed
    \/ LoopSpawn
    \/ LoopJoinNext
    \/ LoopReturn
    \/ \E w \in Workers :
          \/ WStart(w) \/ WLockForInsert(w) \/ WInsert(w) \/ WCancelPrevious(w)
          \/ WWaitPrevious(w)
          \/ WBegin(w) \/ WPrepare(w) \/ WExec(w)
          \/ HandleCancelled(w) \/ HandleSuppressed(w) \/ HandleSuccess(w)
          \/ HandleOverflow(w) \/ HandleError(w) \/ HandleTimeout(w)
          \/ WLockForCleanup(w) \/ WCleanup(w) \/ WMarkDone(w)

\* The runtime polls a task that is ready, every provider call returns or times
\* out, and every channel call returns.
FairSpec == Spec /\ WF_vars(Scheduled)

\* ------------------------------------------------------------ properties
\* Interruption applies to worker w's message.
InterruptOn(w) == ctx.interrupt_on_new_message /\ wmsg[w].channel = "telegram"

\* Workers a and b were both spawned, for messages of one interruption scope.
SameScope(a, b) ==
    /\ pc[a] # "idle"
    /\ pc[b] # "idle"
    /\ interruption_scope_key(wmsg[a]) = interruption_scope_key(wmsg[b])

\* Worker w is inside process_channel_message, past its entry check.
Executing(w) == pc[w] \in {"prepare", "exec", "handle"}

\* Worker w's pipeline body has begun (and may have ended).
BodyStarted(w) == Executing(w) \/ outcome[w] \notin {"none", "skipped"}

\* Worker w holds the swapped-out entry of a previous task and is past its wait.
PastWait(w) == previous[w] # 0 /\ pc[w] \notin {"cancel_previous", "wait_previous"}

\* Some worker swapped out worker w's entry.
Superseded(w) == \E v \in Workers : previous[v] = w

\* Worker w has inserted its entry and has not yet run its removal step.
EntryLive(w) ==
    /\ interrupt_enabled[w]
    /\ pc[w] \in {"cancel_previous", "wait_previous", "begin", "prepare", "exec", "handle",
                 "cleanup", "cleaning"}

\* C1: the workers spawned and not yet finished never outnumber
\* max_in_flight_messages, and each of them holds exactly one permit.
C1_InFlightBound ==
    /\ Cardinality(Running) <= max_in_flight_messages
    /\ permits = max_in_flight_messages - Cardinality(Running)

\* The pool is full and the loop holds a message it cannot spawn a worker for.
C1_Witness ==
    /\ Cardinality(Running) = max_in_flight_messages
    /\ loopPc = "acquire"
    /\ loopMsg # NoMsg

\* C2: of two messages of one interruption scope the later one's pipeline body
\* never starts before the earlier one's completion signal has fired.
C2_LaterWaitsForEarlier ==
    \A a, b \in Workers :
        (a < b /\ InterruptOn(a) /\ InterruptOn(b) /\ SameScope(a, b) /\ BodyStarted(b))
            => completion[a]

\* C3: two tasks of one interruption scope never execute their pipelines at the
\* same time (so at most one executes with an uncancelled token).
C3_NoOverlap ==
    \A a, b \in Workers :
        (a # b /\ InterruptOn(a) /\ InterruptOn(b) /\ SameScope(a, b))
            => ~(Executing(a) /\ Executing(b))

\* One task executes while a second waits for it and a third waits for the second.
C3_Witness ==
    \E a, b, c \in Workers :
        /\ Executing(a)
        /\ pc[b] = "wait_previous" /\ previous[b] = a
        /\ pc[c] = "wait_previous" /\ previous[c] = b

\* C4 as stated: whenever a scope's entry is overwritten by another task's entry,
\* the task of the old entry has been cancelled and has fired its completion signal.
C4_CompletedBeforeOverwrite ==
    [][\A k \in ScopeKeys :
          (in_flight_by_sender[k].owner # 0
             /\ in_flight_by_sender'[k].owner \notin {0, in_flight_by_sender[k].owner})
          => (cancelled[in_flight_by_sender[k].owner]
                /\ completion[in_flight_by_sender[k].owner])]_vars

\* C4 amended: the superseded task's entry is overwritten first; the superseded
\* task has been cancelled and has fired its completion signal before the
\* superseding task goes on to its pipeline.
C4_CompletedBeforePipeline ==
    \A w \in Workers :
        /\ previous[w] # 0 => in_flight_by_sender[sender_scope_key[w]].owner # previous[w]
        /\ PastWait(w) => (cancelled[previous[w]] /\ completion[previous[w]])

\* A superseding task executes its pipeline after the superseded one ended Cancelled.
C4_Witness ==
    \E w \in Workers :
        /\ previous[w] # 0
        /\ pc[w] = "exec"
        /\ outcome[previous[w]] = "cancelled"

\* C5: as long as a task that has inserted its entry has neither been superseded
\* nor run its own removal step, the scope's entry is its own: no other task's
\* removal step takes it away.
C5_OwnEntryOnly ==
    \A w \in Workers :
        (EntryLive(w) /\ ~Superseded(w))
            => in_flight_by_sender[sender_scope_key[w]] = [task_id |-> task_id[w], owner |-> w]

\* A superseded task has run its removal step while the superseding task's entry
\* is in the map.
C5_Witness ==
    \E old, new \in Workers :
        /\ previous[new] = old
        /\ pc[old] \in {"markdone", "done"}
        /\ EntryLive(new)
        /\ in_flight_by_sender[sender_scope_key[new]].owner = new

\* C6: a task is only ever superseded by the task of a message received after its own.
C6_ArrivalOrder ==
    \A w \in Workers : previous[w] # 0 => previous[w] < w

\* The number of calls of one operation the channel received for worker w's message.
Count(w, op) == Cardinality({i \in 1..Len(calls[w]) : calls[w][i].op = op})

\* Worker w's pipeline run has returned.
PipelineEnded(w) == outcome[w] \notin {"none", "panicked"}

\* Scenario B: only two messages came, both of one conversation and untouched
\* by hooks; b superseded a; a's provider call never returned, so a's select
\* took the cancellation branch; b's provider call succeeded and b has ended.
ScenarioB(a, b) ==
    /\ sent = 2
    /\ previous[b] = a
    /\ msg[a] = wmsg[a]
    /\ msg[b] = wmsg[b]
    /\ llm_result[a] = "cancelled"
    /\ outcome[a] = "cancelled"
    /\ outcome[b] = "success"

\* Worker w's reply went to the channel, by finalize_draft or by send.
ReplyDelivered(w, text) ==
    \E i \in 1..Len(calls[w]) :
        calls[w][i].op \in {"finalize_draft", "send"} /\ calls[w][i].text = text

\* C7 as stated: in scenario B the aborted request leaves nothing in the history:
\* the final history is the second message's exchange only, and its reply is delivered.
C7_AbortedLeavesNoTurn ==
    \A a, b \in Workers :
        ScenarioB(a, b) =>
            \E text \in Replies :
                /\ conversation_histories[conversation_history_key(msg[b])] =
                        <<Turn("user", msg[b].content), Turn("assistant", text)>>
                /\ ReplyDelivered(b, text)

\* C7 amended: in scenario B the first task ends Cancelled having added its user
\* turn (appended before the provider call) and nothing else, and having sent
\* nothing; the second task's reply is delivered; the final history is the two
\* user turns followed by the single assistant turn of the second task's reply.
C7_AbortedKeepsUserTurnOnly ==
    \A a, b \in Workers :
        ScenarioB(a, b) =>
            \E text \in Replies :
                /\ conversation_histories[conversation_history_key(msg[b])] =
                        <<Turn("user", msg[a].content), Turn("user", msg[b].content),
                          Turn("assistant", text)>>
                /\ ReplyDelivered(b, text)
                /\ Count(a, "send") = 0
                /\ Count(a, "finalize_draft") = 0

\* Scenario B has run to its end.
C7_Witness ==
    \E a, b \in Workers : ScenarioB(a, b) /\ pc[a] = "done" /\ pc[b] = "done"

\* C8: a pipeline run that opened a draft has, when it ends, called exactly one
\* of finalize_draft and cancel_draft for it, exactly once.
C8_DraftClosedOnce ==
    \A w \in Workers :
        (PipelineEnded(w) /\ draft_message_id[w])
            => Count(w, "finalize_draft") + Count(w, "cancel_draft") = 1

\* C9 as stated: no message has both a finalize_draft call and a plain send call.
C9_NeverFinalizeAndSend ==
    \A w \in Workers : ~(Count(w, "finalize_draft") > 0 /\ Count(w, "send") > 0)

\* C9 amended: a message has at most one finalize_draft call and at most one
\* send call, and it has both only on the success path, where the send repeats
\* the reply right after the finalize_draft call that returned an error.
C9_SendOnlyAfterFailedFinalize ==
    \A w \in Workers :
        /\ Count(w, "finalize_draft") <= 1
        /\ Count(w, "send") <= 1
        /\ (Count(w, "finalize_draft") > 0 /\ Count(w, "send") > 0) =>
              /\ outcome[w] = "success"
              /\ \E i \in 1..(Len(calls[w]) - 1) :
                    /\ calls[w][i].op = "finalize_draft"
                    /\ calls[w][i].result = "err"
                    /\ calls[w][i + 1].op = "send"
                    /\ calls[w][i + 1].text = calls[w][i].text

\* A reply was sent afresh after its finalize_draft call failed.
C9_Witness ==
    \E w \in Workers :
        outcome[w] = "success" /\ Count(w, "finalize_draft") = 1 /\ Count(w, "send") = 1

\* The terminal failure outcomes of a pipeline run.
FailureOutcomes == {"provider_init_failed", "overflow", "error", "timeout"}

\* Exactly one delivery call was made for w: into the draft if one is open, else a send.
DeliveredOnce(w) ==
    /\ Count(w, "finalize_draft") = (IF draft_message_id[w] THEN 1 ELSE 0)
    /\ Count(w, "send") = (IF draft_message_id[w] THEN 0 ELSE 1)

\* C10 as stated: every terminal failure path makes exactly one delivery.
C10_FailureDeliversOnce ==
    \A w \in Workers : outcome[w] \in FailureOutcomes => DeliveredOnce(w)

\* C10 amended: a terminal failure path makes exactly one delivery call
\* (finalize_draft if a draft is open, else send) when the message's channel is
\* a registered channel, and no channel call at all when it is not.
C10_FailureDeliversOnceIfRegistered ==
    \A w \in Workers :
        outcome[w] \in FailureOutcomes =>
            IF has_target[w] THEN DeliveredOnce(w) ELSE calls[w] = <<>>

\* A timeout notice went into the open draft.
C10_Witness ==
    \E w \in Workers :
        /\ outcome[w] = "timeout"
        /\ draft_message_id[w]
        /\ Count(w, "finalize_draft") = 1
        /\ Count(w, "send") = 0

\* C11: no text handed to a channel is a raw provider error: every text is its
\* own sanitized form.
C11_ErrorTextSanitized ==
    \A w \in Workers : \A i \in 1..Len(calls[w]) :
        calls[w][i].text = sanitize_api_error(calls[w][i].text)

\* The received reaction was added for worker w's message.
ReceivedReactionAdded(w) ==
    \E i \in 1..Len(calls[w]) : calls[w][i].op = "add_reaction" /\ calls[w][i].text = "eyes"

\* The received reaction was removed and a final reaction added after it.
ReactionSwapped(w) ==
    \E i, j \in 1..Len(calls[w]) :
        /\ i < j
        /\ calls[w][i].op = "remove_reaction" /\ calls[w][i].text = "eyes"
        /\ calls[w][j].op = "add_reaction" /\ calls[w][j].text \in {"check", "warning"}

\* C12: a pipeline run that added the received reaction has, when it ends,
\* attempted to remove it and to add a final reaction, whatever its outcome.
C12_ReactionAlwaysSwapped ==
    \A w \in Workers : (PipelineEnded(w) /\ ReceivedReactionAdded(w)) => ReactionSwapped(w)

\* Worker w's conversation history.
HistoryOf(w) == conversation_histories[conversation_history_key(msg[w])]

\* The channel received the notice for worker w's message.
Notified(w, text) ==
    \E i \in 1..Len(calls[w]) :
        calls[w][i].op \in {"finalize_draft", "send"} /\ calls[w][i].text = text

\* The step that takes worker w to the provider call.
ReachesProvider(w) == pc[w] = "prepare" /\ pc'[w] = "exec"

\* The step in which worker w's run ends with the given outcome.
EndsAs(w, o) == outcome[w] = "none" /\ outcome'[w] = o

\* The step adds exactly the given turn at the end of worker w's conversation.
Appends(w, turn) == HistoryOf(w)' = Append(HistoryOf(w), turn)

\* C13 as stated: the step to the provider call appends the message's user turn;
\* the step handling a timeout leaves every turn in place, appends the timed-out
\* sentinel after them, and notifies the channel.
C13_TimeoutClosesTurn ==
    [][\A w \in Workers :
          /\ ReachesProvider(w) => Appends(w, Turn("user", msg[w].content))
          /\ EndsAs(w, "timeout") =>
                /\ Appends(w, Turn("assistant", TIMEOUT_SENTINEL))
                /\ Notified(w, "timeout_notice")']_vars

\* C13 amended: as stated, the channel being notified when the message's channel
\* is a registered one, and receiving no call at all when it is not.
C13_TimeoutClosesTurnNotifiesRegistered ==
    [][\A w \in Workers :
          /\ ReachesProvider(w) => Appends(w, Turn("user", msg[w].content))
          /\ EndsAs(w, "timeout") =>
                /\ Appends(w, Turn("assistant", TIMEOUT_SENTINEL))
                /\ IF has_target[w] THEN Notified(w, "timeout_notice")'
                                    ELSE calls'[w] = <<>>]_vars

\* A timed-out run on a registered channel has closed its turn and sent its notice.
C13_Witness ==
    \E w \in Workers :
        /\ outcome[w] = "timeout"
        /\ has_target[w]
        /\ HistoryOf(w) = <<Turn("user", msg[w].content), Turn("assistant", TIMEOUT_SENTINEL)>>
        /\ Notified(w, "timeout_notice")

\* Worker w's conversation holds a user turn with its message's content.
HasUserTurn(w) ==
    \E i \in 1..Len(HistoryOf(w)) : HistoryOf(w)[i] = Turn("user", msg[w].content)

\* The step removes the most recent user turn with the message's content from
\* worker w's conversation and changes nothing else in it.
RemovesLastUserTurn(w) ==
    \E i \in 1..Len(HistoryOf(w)) :
        /\ HistoryOf(w)[i] = Turn("user", msg[w].content)
        /\ \A j \in (i + 1)..Len(HistoryOf(w)) : HistoryOf(w)[j] # Turn("user", msg[w].content)
        /\ Len(HistoryOf(w)') = Len(HistoryOf(w)) - 1
        /\ \A k \in 1..(Len(HistoryOf(w)) - 1) :
              HistoryOf(w)'[k] = IF k < i THEN HistoryOf(w)[k] ELSE HistoryOf(w)[k + 1]

\* C14 as stated: a run that ends on a capability error removes the most recent
\* matching user turn and nothing else; a run that ends on any other error
\* appends the failure sentinel.
C14_CapabilityRollsBack ==
    [][\A w \in Workers :
          EndsAs(w, "error") =>
              IF llm_result[w] \in {"err_capability", "err_capability_other"}
              THEN RemovesLastUserTurn(w)
              ELSE Appends(w, Turn("assistant", FAILED_SENTINEL))]_vars

\* C14 amended: the user turn is rolled back only for a capability error whose
\* capability is "vision" (and only if such a turn is found); every other error
\* of this arm, other capability errors included, appends the failure sentinel.
C14_VisionRollsBack ==
    [][\A w \in Workers :
          EndsAs(w, "error") =>
              IF llm_result[w] = "err_capability" /\ HasUserTurn(w)
              THEN RemovesLastUserTurn(w)
              ELSE Appends(w, Turn("assistant", FAILED_SENTINEL))]_vars

\* A vision error was rolled back out of a conversation that held an earlier
\* completed exchange, which is all that is left.
C14_Witness ==
    \E w \in Workers :
        /\ outcome[w] = "error"
        /\ llm_result[w] = "err_capability"
        /\ HistoryOf(w) = <<Turn("user", msg[w].content), Turn("assistant", "reply")>>

\* C15: the step handling a context-window overflow leaves the conversation's
\* history non-empty, with a last turn that is not a user turn left unanswered.
C15_OverflowLeavesNoOrphan ==
    [][\A w \in Workers :
          EndsAs(w, "overflow") =>
              /\ Len(HistoryOf(w)') > 0
              /\ HistoryOf(w)'[Len(HistoryOf(w)')].role # "user"]_vars

\* C16: every call that delivers the reply of a successful run goes to the
\* channel and the reply target of the message the pipeline processed, whatever
\* channel and recipient on_message_sending returned.
C16_ReplyGoesToInboundTarget ==
    \A w \in Workers :
        outcome[w] = "success" =>
            \A i \in 1..Len(calls[w]) :
                calls[w][i].op \in {"finalize_draft", "send"} =>
                    /\ calls[w][i].channel = msg[w].channel
                    /\ calls[w][i].to = msg[w].reply_target
                    /\ calls[w][i].text \in Replies

\* With hooks configured, the hook's content was delivered to the message's own
\* reply target on its own channel.
C16_Witness ==
    \E w \in Workers : \E i \in 1..Len(calls[w]) :
        /\ ctx.hooks
        /\ outcome[w] = "success"
        /\ calls[w][i].op = "send"
        /\ calls[w][i].text = "hook_reply"
        /\ calls[w][i].channel = msg[w].channel
        /\ calls[w][i].to = msg[w].reply_target

\* C17: a run vetoed by on_message_received changes no history and leaves no
\* provider result, draft or channel call behind; a run that goes on uses the
\* message the hook handed back for the channel lookup, for the history key and
\* the user turn, and for the target of every channel call.
C17_ReceivedHookHonoured ==
    /\ [](\A w \in Workers :
            /\ outcome[w] = "dropped" =>
                  /\ calls[w] = <<>>
                  /\ llm_result[w] = "none"
                  /\ ~draft_message_id[w]
            /\ BodyStarted(w) /\ outcome[w] # "dropped" =>
                  /\ has_target[w] = (msg[w].channel \in ctx.channels_by_name)
                  /\ \A i \in 1..Len(calls[w]) :
                        /\ calls[w][i].channel = msg[w].channel
                        /\ calls[w][i].to = msg[w].reply_target)
    /\ [][\A w \in Workers :
            /\ EndsAs(w, "dropped") => conversation_histories' = conversation_histories
            /\ ReachesProvider(w) => Appends(w, Turn("user", msg[w].content))]_vars

\* A message whose content and reply target the hook rewrote was answered: the
\* rewritten content is its user turn and the reply went to the rewritten target.
C17_Witness ==
    \E w \in Workers : \E i \in 1..Len(calls[w]) :
        /\ msg[w].content # wmsg[w].content
        /\ msg[w].reply_target # wmsg[w].reply_target
        /\ outcome[w] = "success"
        /\ HistoryOf(w)[1] = Turn("user", msg[w].content)
        /\ calls[w][i].op = "send"
        /\ calls[w][i].to = msg[w].reply_target

\* C18: every worker task that was spawned ends, whatever happened to the tasks
\* before it, and the dispatch loop never stays stuck with a message in hand.
C18_LaterMessagesComplete ==
    /\ \A w \in 1..(MaxMessages + Cardinality(ChainRoles)) :
            (w \in Workers /\ pc[w] # "idle") ~> (w \in Workers /\ pc[w] = "done")
    /\ (loopPc = "acquire") ~> (loopPc # "acquire")

\* C19: each harvest between two bus pops takes every worker that has finished
\* and no other; the loop function returns only with every spawned worker
\* finished and joined; and once the bus is closed it does return.
C19_DrainsAndReturns ==
    /\ [][(loopPc = "acquire" /\ loopPc' = "recv") => joined' = Finished]_vars
    /\ [](joined \subseteq Finished)
    /\ [](loopPc = "returned" => (Running = {} /\ Spawned \subseteq joined))
    /\ busClosed ~> (loopPc = "returned")

\* C20: the bus never holds more than BUS_CAPACITY messages and no send is
\* possible while it is full; it holds the messages enqueued last, in the order
\* they were enqueued; the loop takes the oldest one, the n-th message it takes
\* being the n-th enqueued; and each message taken goes to one worker that had
\* no message before, every other worker keeping its own.
C20_BoundedFifoBus ==
    /\ [](Len(bus) <= BUS_CAPACITY)
    /\ [](Len(bus) = BUS_CAPACITY =>
            ~ENABLED (\E c \in Channels, s \in Senders, t \in Contents : ListenerSend(c, s, t)))
    /\ [](\A i \in 1..Len(bus) : bus[i].id = sent - Len(bus) + i)
    /\ [][(loopPc = "recv" /\ loopPc' = "acquire") =>
            /\ loopMsg' = Head(bus)
            /\ bus' = Tail(bus)
            /\ loopMsg'.id = Cardinality(Spawned) + 1]_vars
    /\ [][(loopPc = "acquire" /\ loopPc' = "recv") =>
            \E w \in Workers :
                /\ pc[w] = "idle" /\ pc'[w] = "start" /\ wmsg'[w] = loopMsg
                /\ \A v \in Workers \ {w} : pc'[v] = pc[v] /\ wmsg'[v] = wmsg[v]]_vars

\* The bus is full while a listener has one more message to send.
C20_Witness ==
    /\ Len(bus) = BUS_CAPACITY
    /\ sent < env.budget
    /\ ~busClosed

\* =================================================== plugin subprocess protocol
\* One invocation of a command plugin (channels/plugin.rs, memory/plugin.rs,
\* security/plugin.rs): spawn, write the request, wait for the child under the
\* timeout, read its one response document.
MaxTimeoutSecs == 2

Subsystems == {"channel", "memory", "security"}

\* What the child writes to standard output: nothing, blanks, something that is
\* not JSON, or a JSON object whose fields may be absent.
ResponseDocuments ==
    [ok : {"absent", "true", "false"},
     data : {"absent", "null", "value", "malformed"},
     error : {"absent", "null", "", " ", "boom"}]
TextOutputs == [text : {"", " ", "not json"}]
Stdouts == TextOutputs \cup ResponseDocuments

\* The children an invocation may meet: exit_after is the second the child
\* exits in, MaxTimeoutSecs + 2 standing for a child that never exits.
NeverExits == MaxTimeoutSecs + 2
Children ==
    [exit_after : 0..NeverExits, status : {0, 1}, stdout : Stdouts]

\* String::trim
trim(text) ==
    CASE text = " " -> ""
      [] text = " a " -> "a"
      [] text = " Completed " -> "Completed"
      [] OTHER -> text

\* serde_json::from_str::<Plugin*Response<T>>: ok defaults to false, a null or
\* absent data or error is None, data of another shape than T does not decode.
from_str(stdout) ==
    IF stdout \notin ResponseDocuments \/ stdout.data = "malformed"
    THEN [decoded |-> FALSE]
    ELSE [decoded |-> TRUE,
          ok |-> (stdout.ok = "true"),
          data |-> IF stdout.data = "value" THEN "value" ELSE "None",
          error |-> IF stdout.error \in {"absent", "null"} THEN "None" ELSE stdout.error]

Failure(kind, detail) == [ok |-> FALSE, data |-> "None", kind |-> kind, detail |-> detail]

\* ResponseOf as it would be if a decoded document were taken as a success
\* whatever its ok field says.
ResponseOfIgnoresOk(subsystem, child) ==
    LET stdout == child.stdout
        parsed == from_str(stdout)
    IN  IF child.status # 0 THEN Failure("exited with status", "stderr")
        ELSE IF stdout \in TextOutputs /\ trim(stdout.text) = "" THEN Failure("returned an empty response", "")
        ELSE IF ~parsed.decoded THEN Failure("decode plugin response JSON", "")
        ELSE [ok |-> TRUE,
              data |-> IF subsystem = "security" /\ parsed.data = "None"
                       THEN "default" ELSE parsed.data,
              kind |-> "", detail |-> ""]

\* What invoke returns for a child that exited before the timeout.
ResponseOf(subsystem, child) ==
    LET stdout == child.stdout
        parsed == from_str(stdout)
    IN  IF child.status # 0 THEN Failure("exited with status", "stderr")
        ELSE IF stdout \in TextOutputs /\ trim(stdout.text) = "" THEN Failure("returned an empty response", "")
        ELSE IF ~parsed.decoded THEN Failure("decode plugin response JSON", "")
        ELSE IF ~parsed.ok
             THEN Failure("failed",
                          IF parsed.error # "None" /\ trim(parsed.error) # ""
                          THEN parsed.error ELSE "unknown plugin error")
        ELSE [ok |-> TRUE,
              data |-> IF subsystem = "security" /\ parsed.data = "None"
                       THEN "default" ELSE parsed.data,
              kind |-> "", detail |-> ""]

\* Duration::from_secs(plugin.timeout_secs.max(1))
Deadline(timeout_secs) == IF timeout_secs > 1 THEN timeout_secs ELSE 1

\* command.spawn() and the request written to the child's standard input.
PluginInit ==
    /\ DispatchParked
    /\ DoctorParked
    /\ PinParked
    /\ PlanParked
    /\ CronParked
    /\ StreamParked
    /\ \E sub \in Subsystems, t \in 0..MaxTimeoutSecs, child \in Children :
          invocation = [pc |-> "waiting", subsystem |-> sub, timeout_secs |-> t,
                        child |-> child, elapsed |-> 0, killed |-> FALSE,
                        result |-> [ok |-> FALSE, data |-> "None", kind |-> "", detail |-> ""]]

dispatchVars == <<loopVars, permits, task_sequence, in_flight_by_sender, active, ctx, env,
                  max_in_flight_messages, pc, wmsg, wrapVars, cancelled, completion, pipeVars>>
pluginFrame == <<dispatchVars, doctorVars, pinVars, planVars, cronVars, streamVars>>

\* The child has exited: wait_with_output (try_wait in the security subsystem)
\* yields its output, which is looked at before the clock.
PluginExited ==
    /\ invocation.pc = "waiting"
    /\ invocation.child.exit_after <= invocation.elapsed
    /\ invocation' = [invocation EXCEPT !.pc = "returned",
                         !.result = ResponseOf(invocation.subsystem, invocation.child)]
    /\ UNCHANGED pluginFrame

\* A second passes with the child still running and the timeout not reached.
PluginTick ==
    /\ invocation.pc = "waiting"
    /\ invocation.child.exit_after > invocation.elapsed
    /\ invocation.elapsed < Deadline(invocation.timeout_secs)
    /\ invocation' = [invocation EXCEPT !.elapsed = @ + 1]
    /\ UNCHANGED pluginFrame

\* The timeout is reached with the child still running: the child is killed and
\* the invocation fails.
PluginTimedOut ==
    /\ invocation.pc = "waiting"
    /\ invocation.child.exit_after > invocation.elapsed
    /\ invocation.elapsed >= Deadline(invocation.timeout_secs)
    /\ invocation' = [invocation EXCEPT !.pc = "returned", !.killed = TRUE,
                         !.result = Failure("timed out", "")]
    /\ UNCHANGED pluginFrame

PluginNext ==
    \/ PluginExited
    \/ PluginTick
    \/ PluginTimedOut

PluginSpec == PluginInit /\ [][PluginNext]_vars

\* C21: in each of the three plugin subsystems an invocation returns success
\* only if the child exited with status zero within max(timeout_secs, 1)
\* seconds, its output is non-empty JSON that decodes, and the document has
\* ok = true; and a child that exits zero in time with a document that decodes,
\* has ok = false and error "boom" gives a failure whose text carries "boom".
C21_PluginFailsClosed ==
    invocation.pc = "returned" =>
        LET child == invocation.child
            limit == IF invocation.timeout_secs >= 1 THEN invocation.timeout_secs ELSE 1
            within == child.exit_after <= limit
            decodes == /\ child.stdout \in ResponseDocuments
                       /\ child.stdout.data # "malformed"
        IN  /\ invocation.result.ok =>
                  /\ within
                  /\ child.status = 0
                  /\ decodes
                  /\ child.stdout.ok = "true"
            /\ (within /\ child.status = 0 /\ decodes /\ child.stdout.ok = "false"
                  /\ child.stdout.error = "boom") =>
                  /\ ~invocation.result.ok
                  /\ invocation.result.detail = "boom"

\* A child answered {ok: false, error: "boom"} in its first second under a
\* timeout_secs of 0, which the minimum of one second lets through.
C21_Witness ==
    /\ invocation.pc = "returned"
    /\ invocation.child.status = 0
    /\ invocation.child.stdout = [ok |-> "false", data |-> "absent", error |-> "boom"]
    /\ invocation.elapsed = 1
    /\ invocation.timeout_secs = 0
    /\ invocation.result.detail = "boom"

\* ============================================================ channel doctor
\* doctor_channels (channels/doctor.rs): one health check per configured
\* channel under a fixed timeout, three counters, one summary line.
MaxChannels == 2

HEALTH_CHECK_TIMEOUT_SECS == 10

\* A configured channel's health_check: the seconds it takes and its answer.
HealthDurations == {0, HEALTH_CHECK_TIMEOUT_SECS - 1, HEALTH_CHECK_TIMEOUT_SECS + 1}
HealthStubs == [takes : HealthDurations, answer : BOOLEAN]

RECURSIVE SeqsUpTo(_, _)
SeqsUpTo(S, n) ==
    IF n = 0 THEN {<<>>}
    ELSE SeqsUpTo(S, n - 1) \cup {Append(q, x) : q \in {r \in SeqsUpTo(S, n - 1) : Len(r) = n - 1}, x \in S}

\* config.channels_config: the channels collect_configured_channels builds, and
\* the Nostr channel, whose construction can fail.
DoctorConfigs ==
    [configured : SeqsUpTo(HealthStubs, MaxChannels),
     nostr : {[set |-> FALSE], [set |-> TRUE, connects |-> FALSE]}
             \cup {[set |-> TRUE, connects |-> TRUE, channel |-> c] : c \in HealthStubs}]

\* tokio::time::timeout(Duration::from_secs(10), channel.health_check()).await
health_check_under_timeout(stub) ==
    IF stub.takes < HEALTH_CHECK_TIMEOUT_SECS
    THEN [elapsed |-> FALSE, value |-> stub.answer]
    ELSE [elapsed |-> TRUE]

\* classify_health_result as it would be if a timeout counted as unhealthy.
classify_timeout_as_unhealthy(result) ==
    IF result.elapsed THEN "Unhealthy"
    ELSE IF result.value THEN "Healthy" ELSE "Unhealthy"

classify_health_result(result) ==
    IF result.elapsed THEN "Timeout"
    ELSE IF result.value THEN "Healthy" ELSE "Unhealthy"

DoctorInit ==
    /\ DispatchParked
    /\ PluginParked
    /\ PinParked
    /\ PlanParked
    /\ CronParked
    /\ StreamParked
    /\ \E config \in DoctorConfigs :
          doctor = [pc |-> "collect", config |-> config, channels |-> <<>>, checked |-> <<>>,
                    healthy |-> 0, unhealthy |-> 0, timeout |-> 0, summary |-> <<>>]

doctorFrame == <<dispatchVars, pluginVars, pinVars, planVars, cronVars, streamVars>>

\* collect_configured_channels, then the Nostr channel when it is configured.
DoctorCollect ==
    /\ doctor.pc = "collect"
    /\ LET config == doctor.config
           channels == IF config.nostr.set /\ config.nostr.connects
                       THEN Append(config.configured, config.nostr.channel)
                       ELSE config.configured
       IN  doctor' = [doctor EXCEPT
                         !.channels = channels,
                         !.pc = IF config.nostr.set /\ ~config.nostr.connects THEN "failed"
                                ELSE IF channels = <<>> THEN "done"
                                ELSE "check"]
    /\ UNCHANGED doctorFrame

\* One turn of the loop: the next channel is checked, classified and counted.
DoctorCheck ==
    /\ doctor.pc = "check"
    /\ Len(doctor.checked) < Len(doctor.channels)
    /\ LET configured == doctor.channels[Len(doctor.checked) + 1]
           state == classify_health_result(health_check_under_timeout(configured))
       IN  doctor' = [doctor EXCEPT
                         !.checked = Append(@, state),
                         !.healthy = IF state = "Healthy" THEN @ + 1 ELSE @,
                         !.unhealthy = IF state = "Unhealthy" THEN @ + 1 ELSE @,
                         !.timeout = IF state = "Timeout" THEN @ + 1 ELSE @]
    /\ UNCHANGED doctorFrame

\* println!("Summary: {healthy} healthy, {unhealthy} unhealthy, {timeout} timed out")
DoctorSummary ==
    /\ doctor.pc = "check"
    /\ Len(doctor.checked) = Len(doctor.channels)
    /\ doctor' = [doctor EXCEPT !.pc = "done",
                     !.summary = <<doctor.healthy, doctor.unhealthy, doctor.timeout>>]
    /\ UNCHANGED doctorFrame

DoctorNext ==
    \/ DoctorCollect
    \/ DoctorCheck
    \/ DoctorSummary

DoctorSpec == DoctorInit /\ [][DoctorNext]_vars

\* The channels of the run whose health_check answers as given within the limit.
Answering(answer) ==
    {i \in 1..Len(doctor.checked) :
        /\ doctor.channels[i].takes < HEALTH_CHECK_TIMEOUT_SECS
        /\ doctor.channels[i].answer = answer}
Late == {i \in 1..Len(doctor.checked) : doctor.channels[i].takes > HEALTH_CHECK_TIMEOUT_SECS}

\* C22: every channel doctor_channels has checked is classified Healthy when its
\* health_check returned true within 10 s, Unhealthy when it returned false
\* within 10 s and Timeout when it did not return within 10 s; each counter is
\* the number of channels of its class, and the reported counts sum to the
\* number of channels checked.
C22_DoctorClassifies ==
    doctor.pc \in {"check", "done"} =>
        /\ \A i \in 1..Len(doctor.checked) :
              doctor.checked[i] =
                  IF i \in Late THEN "Timeout"
                  ELSE IF i \in Answering(TRUE) THEN "Healthy" ELSE "Unhealthy"
        /\ doctor.healthy = Cardinality(Answering(TRUE))
        /\ doctor.unhealthy = Cardinality(Answering(FALSE))
        /\ doctor.timeout = Cardinality(Late)
        /\ doctor.healthy + doctor.unhealthy + doctor.timeout = Len(doctor.checked)
        /\ (doctor.summary # <<>> =>
              /\ Len(doctor.checked) = Len(doctor.channels)
              /\ doctor.summary[1] + doctor.summary[2] + doctor.summary[3] = Len(doctor.channels))

\* The summary of a run over a healthy channel, an unhealthy one and one that
\* takes 11 s.
C22_Witness ==
    /\ doctor.pc = "done"
    /\ doctor.summary = <<1, 1, 1>>
    /\ \E i \in 1..Len(doctor.channels) :
          /\ doctor.channels[i].takes = HEALTH_CHECK_TIMEOUT_SECS + 1
          /\ doctor.checked[i] = "Timeout"

\* ============================================================ Signal PIN gate
\* SignalPinManager (channels/signal_pin.rs): the PIN state file, the calls
\* that read and write it, and the clock.
MaxAdvances == 2
MaxVerifications == 3

\* chrono::Duration, in minutes
Minutes(m) == m
Hours(h) == 60 * h
Days(d) == 1440 * d

\* Option<DateTime<Utc>>::None
None == -1

Pins == {"1234", "0000", "12"}
PinLen == [p \in Pins |-> IF p = "12" THEN 2 ELSE 4]

\* SignalConfig: the configuration of the tests, and variations of it with
\* verification off, a fixed schedule, and values outside the accepted ranges.
BaseConfig ==
    [pin_verification |-> TRUE, pin_reverify_days |-> 10, pin_adaptive_schedule |-> TRUE,
     pin_reminder_hours_before |-> 12, pin_max_failed_attempts |-> 2,
     pin_lockout_minutes |-> 15, pin_min_length |-> 4]
PinConfigs ==
    {BaseConfig,
     [BaseConfig EXCEPT !.pin_verification = FALSE],
     [BaseConfig EXCEPT !.pin_adaptive_schedule = FALSE, !.pin_reverify_days = 45,
                        !.pin_max_failed_attempts = 3],
     [BaseConfig EXCEPT !.pin_adaptive_schedule = FALSE, !.pin_reverify_days = 0,
                        !.pin_reminder_hours_before = 0, !.pin_max_failed_attempts = 0,
                        !.pin_lockout_minutes = 0, !.pin_min_length = 0]}

AtLeastOne(n) == IF n < 1 THEN 1 ELSE n

\* SignalPinPolicy::from_config
from_config(config) ==
    [pin_verification |-> config.pin_verification,
     pin_reverify_days |-> IF config.pin_reverify_days > 30 THEN 30
                           ELSE AtLeastOne(config.pin_reverify_days),
     pin_adaptive_schedule |-> config.pin_adaptive_schedule,
     pin_reminder_hours_before |-> config.pin_reminder_hours_before,
     pin_max_failed_attempts |-> AtLeastOne(config.pin_max_failed_attempts),
     pin_lockout_minutes |-> AtLeastOne(config.pin_lockout_minutes),
     pin_min_length |-> AtLeastOne(config.pin_min_length)]

\* validate_pin, for PINs made of digits
validate_pin(pin) == PinLen[pin] >= policy.pin_min_length

\* hash_pin and verify_pin_against_hash: a hash verifies the PIN it was made of,
\* and an empty or malformed hash verifies nothing.
hash_pin(pin) == <<"argon2id", pin>>
verify_pin_against_hash(pin, hash) == hash = <<"argon2id", pin>>

\* SecretStore::encrypt and SecretStore::decrypt
encrypt(plain) == [cipher |-> "enc2", plain |-> plain]
decrypt(stored) ==
    IF stored.cipher = "enc2" THEN [ok |-> TRUE, plain |-> stored.plain]
    ELSE [ok |-> FALSE, plain |-> <<>>]

\* Option<DateTime<Utc>> to the persisted Option<String> and back
to_rfc3339(value) == IF value = None THEN [kind |-> "null"] ELSE [kind |-> "rfc3339", t |-> value]

\* parse_optional_timestamp as it would be if a malformed timestamp read as none.
parse_timestamp_leniently(value) ==
    IF value.kind = "rfc3339" THEN [ok |-> TRUE, value |-> value.t]
    ELSE [ok |-> TRUE, value |-> None]

parse_optional_timestamp(value) ==
    IF value.kind \in {"null", "blank"} THEN [ok |-> TRUE, value |-> None]
    ELSE IF value.kind = "rfc3339" THEN [ok |-> TRUE, value |-> value.t]
    ELSE [ok |-> FALSE, value |-> None]

save_state(state) ==
    [kind |-> "json",
     pin_hash |-> encrypt(state.pin_hash),
     last_verified_at |-> to_rfc3339(state.last_verified_at),
     verification_count |-> state.verification_count,
     next_verify_at |-> to_rfc3339(state.next_verify_at),
     failed_attempts |-> state.failed_attempts,
     locked_until |-> to_rfc3339(state.locked_until),
     last_reminder_at |-> to_rfc3339(state.last_reminder_at)]

load_state(file) ==
    IF file.kind = "missing" THEN [kind |-> "Missing"]
    ELSE IF file.kind # "json" THEN [kind |-> "Corrupt"]
    ELSE LET pin_hash == decrypt(file.pin_hash)
             last_verified_at == parse_optional_timestamp(file.last_verified_at)
             next_verify_at == parse_optional_timestamp(file.next_verify_at)
             locked_until == parse_optional_timestamp(file.locked_until)
             last_reminder_at == parse_optional_timestamp(file.last_reminder_at)
         IN  IF ~pin_hash.ok \/ ~last_verified_at.ok \/ ~next_verify_at.ok
                \/ ~locked_until.ok \/ ~last_reminder_at.ok
             THEN [kind |-> "Corrupt"]
             ELSE [kind |-> "Available",
                   state |-> [pin_hash |-> pin_hash.plain,
                              last_verified_at |-> last_verified_at.value,
                              verification_count |-> file.verification_count,
                              next_verify_at |-> next_verify_at.value,
                              failed_attempts |-> file.failed_attempts,
                              locked_until |-> locked_until.value,
                              last_reminder_at |-> last_reminder_at.value]]

\* The state files a manager may find: none, one it cannot read or parse, and
\* files written by hand or by another version.
HandWritten ==
    [pin_hash |-> hash_pin("1234"), last_verified_at |-> None, verification_count |-> 0,
     next_verify_at |-> Days(1), failed_attempts |-> 0, locked_until |-> None,
     last_reminder_at |-> None]
FoundFiles ==
    {[kind |-> "missing"], [kind |-> "unreadable"], [kind |-> "not json"],
     [save_state(HandWritten) EXCEPT !.pin_hash = [cipher |-> "unknown"]],
     [save_state(HandWritten) EXCEPT !.next_verify_at = [kind |-> "invalid"]],
     [save_state(HandWritten) EXCEPT !.next_verify_at = [kind |-> "null"]],
     [save_state(HandWritten) EXCEPT !.pin_hash = encrypt(<<>>)]}

\* next_interval_days_after_count as it would be without the adaptive steps.
next_interval_days_fixed(verification_count) == policy.pin_reverify_days

next_interval_days_after_count(verification_count) ==
    IF ~policy.pin_adaptive_schedule THEN policy.pin_reverify_days
    ELSE CASE verification_count = 0 -> 1
           [] verification_count = 1 -> 3
           [] verification_count = 2 -> 7
           [] OTHER -> policy.pin_reverify_days

minutes_until(from, target) ==
    LET secs == IF target > from THEN 60 * (target - from) ELSE 0
    IN  (secs + 59) \div 60

\* set_pin_at: the file it writes, or the file left as it was when the PIN is
\* refused.
set_pin_at(file, pin) ==
    IF ~validate_pin(pin) THEN [file |-> file, result |-> [tag |-> "Err"]]
    ELSE [file |-> save_state([pin_hash |-> hash_pin(pin),
                               last_verified_at |-> now,
                               verification_count |-> 0,
                               next_verify_at |-> now + Days(next_interval_days_after_count(0)),
                               failed_attempts |-> 0,
                               locked_until |-> None,
                               last_reminder_at |-> None]),
          result |-> [tag |-> "Ok"]]

\* if state.failed_attempts >= self.policy.pin_max_failed_attempts, as it would
\* be if the lockout started one attempt late.
lockout_reached_late(failed) == failed > policy.pin_max_failed_attempts

lockout_reached(failed) == failed >= policy.pin_max_failed_attempts

verify_pin_attempt_at(file, pin) ==
    LET loaded == load_state(file)
        state == loaded.state
        count == state.verification_count + 1
        next_verify_at == now + Days(next_interval_days_after_count(count))
        failed == state.failed_attempts + 1
    IN  IF loaded.kind = "Missing" THEN [file |-> file, result |-> [tag |-> "NotConfigured"]]
        ELSE IF loaded.kind = "Corrupt" THEN [file |-> file, result |-> [tag |-> "CorruptState"]]
        ELSE IF state.pin_hash = <<>> THEN [file |-> file, result |-> [tag |-> "NotConfigured"]]
        ELSE IF state.locked_until # None /\ state.locked_until > now
        THEN [file |-> file,
              result |-> [tag |-> "LockedOut",
                          remaining_minutes |-> minutes_until(now, state.locked_until)]]
        ELSE IF verify_pin_against_hash(pin, state.pin_hash)
        THEN [file |-> save_state([state EXCEPT
                          !.failed_attempts = 0,
                          !.locked_until = None,
                          !.verification_count = count,
                          !.last_verified_at = now,
                          !.next_verify_at = next_verify_at,
                          !.last_reminder_at = None]),
              result |-> [tag |-> "Verified", next_verify_at |-> next_verify_at]]
        ELSE IF lockout_reached(failed)
        THEN [file |-> save_state([state EXCEPT
                          !.failed_attempts = policy.pin_max_failed_attempts,
                          !.locked_until = now + Minutes(policy.pin_lockout_minutes)]),
              result |-> [tag |-> "LockedOut",
                          remaining_minutes |-> policy.pin_lockout_minutes]]
        ELSE [file |-> save_state([state EXCEPT !.failed_attempts = failed]),
              result |-> [tag |-> "Incorrect",
                          remaining_attempts |-> policy.pin_max_failed_attempts - failed,
                          lockout_minutes |-> policy.pin_lockout_minutes]]

verify_pin_without_side_effects(file, pin) ==
    LET loaded == load_state(file)
    IN  IF loaded.kind = "Available" THEN verify_pin_against_hash(pin, loaded.state.pin_hash)
        ELSE FALSE

\* reminder_hours_remaining: None, or the hours left before next_verify_at.
reminder_hours_remaining(state) ==
    LET reminder_start == state.next_verify_at - Hours(policy.pin_reminder_hours_before)
        secs_remaining == 60 * (state.next_verify_at - now)
        hours == (secs_remaining + 3599) \div 3600
    IN  IF policy.pin_reminder_hours_before = 0 THEN None
        ELSE IF state.next_verify_at = None \/ state.next_verify_at <= now THEN None
        ELSE IF now < reminder_start THEN None
        ELSE IF state.last_reminder_at # None /\ state.last_reminder_at >= reminder_start THEN None
        ELSE IF hours < 1 THEN 1 ELSE hours

Open(reminder) == [tag |-> "Open", reminder |-> reminder]
Locked(reason) == [tag |-> "Locked", reason |-> reason]

gate_status_at(file) ==
    LET loaded == load_state(file)
        state == loaded.state
    IN  IF ~policy.pin_verification THEN Open(None)
        ELSE IF loaded.kind = "Missing" THEN Locked("NotConfigured")
        ELSE IF loaded.kind = "Corrupt" THEN Locked("CorruptState")
        ELSE IF state.pin_hash = <<>> THEN Locked("NotConfigured")
        ELSE IF state.locked_until # None /\ state.locked_until > now THEN Locked("LockedOut")
        ELSE IF state.next_verify_at = None THEN Locked("NotConfigured")
        ELSE IF state.next_verify_at <= now THEN Locked("Expired")
        ELSE Open(reminder_hours_remaining(state))

\* mark_reminder_sent_at as it would be if it recorded nothing.
mark_reminder_sent_records_nothing(file) == file

mark_reminder_sent_at(file) ==
    LET loaded == load_state(file)
    IN  IF loaded.kind = "Available"
        THEN save_state([loaded.state EXCEPT !.last_reminder_at = now])
        ELSE file

\* status_at: the fields of SignalPinStatus that depend on the state.
status_at(file) ==
    LET loaded == load_state(file)
        state == loaded.state
        blank == [configured |-> FALSE, locked |-> policy.pin_verification,
                  lock_reason |-> IF policy.pin_verification THEN "NotConfigured" ELSE "None",
                  lockout_remaining_minutes |-> None, next_verify_at |-> None,
                  verification_count |-> 0, failed_attempts |-> 0]
        filled == [blank EXCEPT !.configured = (state.pin_hash # <<>>),
                                !.next_verify_at = state.next_verify_at,
                                !.verification_count = state.verification_count,
                                !.failed_attempts = state.failed_attempts]
    IN  IF loaded.kind = "Missing" THEN blank
        ELSE IF loaded.kind = "Corrupt"
        THEN [blank EXCEPT !.lock_reason = "CorruptState"]
        ELSE IF ~policy.pin_verification
        THEN [filled EXCEPT !.locked = FALSE, !.lock_reason = "None"]
        ELSE IF state.locked_until # None /\ state.locked_until > now
        THEN [filled EXCEPT !.locked = TRUE, !.lock_reason = "LockedOut",
                 !.lockout_remaining_minutes = minutes_until(now, state.locked_until)]
        ELSE IF state.next_verify_at = None
        THEN [filled EXCEPT !.locked = TRUE, !.lock_reason = "NotConfigured"]
        ELSE IF state.next_verify_at <= now
        THEN [filled EXCEPT !.locked = TRUE, !.lock_reason = "Expired"]
        ELSE [filled EXCEPT !.locked = FALSE, !.lock_reason = "None"]

\* ------------------------------------------------ the calls and the clock
AdvanceSteps == {Minutes(10), Hours(12)}

NothingLogged ==
    [pin |-> "", wrong_since_set |-> None, locked_out_until |-> None,
     verified_since_set |-> None, reminded |-> FALSE, advances |-> 0]

\* SignalPinManager::new over one of the state files.
PinInit ==
    /\ DispatchParked
    /\ PluginParked
    /\ DoctorParked
    /\ PlanParked
    /\ CronParked
    /\ StreamParked
    /\ \E config \in PinConfigs : policy = from_config(config)
    /\ state_file \in FoundFiles
    /\ now = 0
    /\ pin_last = NoCall
    /\ pin_log = NothingLogged

pinFrame == <<dispatchVars, pluginVars, doctorVars, planVars, cronVars, streamVars>>

\* now lies in the reminder window of the schedule in the state file.
InWindow ==
    LET loaded == load_state(state_file)
    IN  /\ loaded.kind = "Available"
        /\ loaded.state.next_verify_at # None
        /\ loaded.state.next_verify_at - Hours(policy.pin_reminder_hours_before) <= now
        /\ now < loaded.state.next_verify_at

PinSetPin(pin) ==
    /\ LET done == set_pin_at(state_file, pin)
       IN  /\ state_file' = done.file
           /\ pin_last' = [op |-> "set_pin", pin |-> pin, result |-> done.result]
           /\ pin_log' = IF done.result.tag = "Ok"
                         THEN [NothingLogged EXCEPT !.pin = pin, !.wrong_since_set = 0,
                                                    !.verified_since_set = 0,
                                                    !.advances = pin_log.advances]
                         ELSE pin_log
    /\ UNCHANGED <<policy, now, pinFrame>>

PinVerifyAttempt(pin) ==
    /\ LET done == verify_pin_attempt_at(state_file, pin)
           since_set == pin_log.wrong_since_set
           wrong == IF since_set = None \/ pin = pin_log.pin THEN None
                    ELSE IF since_set <= policy.pin_max_failed_attempts THEN since_set + 1
                    ELSE since_set
       IN  /\ done.result.tag = "Verified" =>
                  load_state(done.file).state.verification_count <= MaxVerifications
           /\ state_file' = done.file
           /\ pin_last' = [op |-> "verify_pin_attempt", pin |-> pin,
                           result |-> done.result]
           /\ pin_log' = [pin_log EXCEPT
                 !.wrong_since_set = wrong,
                 !.locked_out_until =
                     IF wrong = policy.pin_max_failed_attempts /\ since_set # wrong
                     THEN now + Minutes(policy.pin_lockout_minutes) ELSE @,
                 !.verified_since_set =
                     IF done.result.tag = "Verified" /\ @ # None THEN @ + 1 ELSE @,
                 !.reminded = IF done.result.tag = "Verified" THEN FALSE ELSE @]
    /\ UNCHANGED <<policy, now, pinFrame>>

\* PinVerifyWithoutSideEffects as it would be if it went through
\* verify_pin_attempt_at.
PinVerifyCountingAttempts(pin) ==
    /\ state_file' = verify_pin_attempt_at(state_file, pin).file
    /\ pin_last' = [op |-> "verify_pin_without_side_effects", pin |-> pin,
                    result |-> verify_pin_without_side_effects(state_file, pin)]
    /\ UNCHANGED <<policy, now, pin_log, pinFrame>>

PinVerifyWithoutSideEffects(pin) ==
    /\ pin_last' = [op |-> "verify_pin_without_side_effects", pin |-> pin,
                    result |-> verify_pin_without_side_effects(state_file, pin)]
    /\ UNCHANGED <<policy, state_file, now, pin_log, pinFrame>>

PinGateStatus ==
    /\ pin_last' = [op |-> "gate_status", result |-> gate_status_at(state_file)]
    /\ UNCHANGED <<policy, state_file, now, pin_log, pinFrame>>

PinMarkReminderSent ==
    /\ state_file' = mark_reminder_sent_at(state_file)
    /\ pin_last' = [op |-> "mark_reminder_sent"]
    /\ pin_log' = [pin_log EXCEPT !.reminded = @ \/ InWindow]
    /\ UNCHANGED <<policy, now, pinFrame>>

PinStatus ==
    /\ pin_last' = [op |-> "status", result |-> status_at(state_file)]
    /\ UNCHANGED <<policy, state_file, now, pin_log, pinFrame>>

\* Time passes between two calls, after the caller has read the last result.
PinAdvance(step) ==
    /\ pin_log.advances < MaxAdvances
    /\ now' = now + step
    /\ pin_last' = NoCall
    /\ pin_log' = [pin_log EXCEPT !.advances = @ + 1]
    /\ UNCHANGED <<policy, state_file, pinFrame>>

PinNext ==
    \/ \E pin \in {"1234", "12"} : PinSetPin(pin)
    \/ \E pin \in {"1234", "0000"} : PinVerifyAttempt(pin)
    \/ \E pin \in {"1234", "0000"} : PinVerifyWithoutSideEffects(pin)
    \/ PinGateStatus
    \/ PinMarkReminderSent
    \/ PinStatus
    \/ \E step \in AdvanceSteps : PinAdvance(step)

PinSpec == PinInit /\ [][PinNext]_vars

\* The last call was the k-th consecutive verify_pin_attempt with a wrong PIN
\* since the PIN was set.
WrongAttempt(k) ==
    /\ pin_last.op = "verify_pin_attempt"
    /\ pin_last.pin # pin_log.pin
    /\ pin_log.wrong_since_set = k

\* The M-th wrong attempt since the PIN was set has happened and its lockout
\* time has not passed.
InsideLockout ==
    /\ pin_log.locked_out_until # None
    /\ now < pin_log.locked_out_until

AttemptsCountDown ==
    \A k \in 1..policy.pin_max_failed_attempts :
        WrongAttempt(k) =>
            IF k < policy.pin_max_failed_attempts
            THEN /\ pin_last.result.tag = "Incorrect"
                 /\ pin_last.result.remaining_attempts = policy.pin_max_failed_attempts - k
            ELSE /\ pin_last.result.tag = "LockedOut"
                 /\ pin_last.result.remaining_minutes = policy.pin_lockout_minutes

\* C23 as stated: from a freshly set PIN the k-th consecutive incorrect attempt,
\* k < M, returns Incorrect with M - k attempts remaining, the M-th returns
\* LockedOut with pin_lockout_minutes remaining, and from then until the lockout
\* time has passed status reports locked with reason LockedOut.
C23_LockoutAfterMaxAttempts ==
    /\ AttemptsCountDown
    /\ (pin_last.op = "status" /\ InsideLockout) =>
          /\ pin_last.result.locked
          /\ pin_last.result.lock_reason = "LockedOut"

\* C23 amended: the attempts count down and lock out as stated; status reports
\* the lockout when pin_verification is enabled.
C23_LockoutReportedWhenEnabled ==
    /\ AttemptsCountDown
    /\ (pin_last.op = "status" /\ InsideLockout /\ policy.pin_verification) =>
          /\ pin_last.result.locked
          /\ pin_last.result.lock_reason = "LockedOut"

\* Ten minutes into the lockout that the second wrong attempt started, status
\* reports it.
C23_Witness ==
    /\ pin_last.op = "status"
    /\ InsideLockout
    /\ now > 0
    /\ policy.pin_max_failed_attempts = 2
    /\ policy.pin_verification
    /\ pin_last.result.lock_reason = "LockedOut"
    /\ pin_last.result.lockout_remaining_minutes = 5

\* The state file is readable and every field of it parses.
Parses(file) ==
    /\ file.kind = "json"
    /\ file.pin_hash.cipher = "enc2"
    /\ \A stamp \in {file.last_verified_at, file.next_verify_at, file.locked_until,
                     file.last_reminder_at} : stamp.kind # "invalid"

\* The persisted timestamp is present and later than now.
InFuture(stamp) == stamp.kind = "rfc3339" /\ stamp.t > now

\* C24: with pin_verification enabled gate_status is Open only when the state
\* file is readable and parses, holds a non-empty PIN hash, is not inside an
\* unexpired lockout and has next_verify_at strictly in the future; a missing
\* state file gives Locked(NotConfigured), an unreadable or corrupt one gives
\* Locked(CorruptState).
C24_GateFailsClosed ==
    (pin_last.op = "gate_status" /\ policy.pin_verification) =>
        /\ pin_last.result.tag = "Open" =>
              /\ Parses(state_file)
              /\ state_file.pin_hash.plain # <<>>
              /\ ~InFuture(state_file.locked_until)
              /\ InFuture(state_file.next_verify_at)
        /\ state_file.kind = "missing" => pin_last.result = Locked("NotConfigured")
        /\ (state_file.kind # "missing" /\ ~Parses(state_file)) =>
              pin_last.result = Locked("CorruptState")

\* The gate is open again once a lockout has run out.
C24_Witness ==
    /\ pin_last.op = "gate_status"
    /\ policy.pin_verification
    /\ pin_last.result.tag = "Open"
    /\ state_file.locked_until.kind = "rfc3339"
    /\ state_file.locked_until.t <= now

\* The days to the next verification after the n-th successful verification
\* since the PIN was set, n = 0 standing for set_pin itself.
ScheduledDays(n) ==
    IF ~policy.pin_adaptive_schedule THEN policy.pin_reverify_days
    ELSE IF n = 0 THEN 1
    ELSE IF n = 1 THEN 3
    ELSE IF n = 2 THEN 7
    ELSE policy.pin_reverify_days

\* C25: with the adaptive schedule on set_pin schedules the next verification
\* 1 day after now, the 1st successful verify_pin_attempt 3 days after, the 2nd
\* 7 days after and every later one pin_reverify_days after; with the adaptive
\* schedule off each of them schedules it pin_reverify_days after now.
C25_AdaptiveSchedule ==
    /\ (pin_last.op = "set_pin" /\ pin_last.result.tag = "Ok") =>
          state_file.next_verify_at = [kind |-> "rfc3339", t |-> now + Days(ScheduledDays(0))]
    /\ (pin_last.op = "verify_pin_attempt" /\ pin_last.result.tag = "Verified"
          /\ pin_log.verified_since_set # None) =>
          /\ pin_last.result.next_verify_at = now + Days(ScheduledDays(pin_log.verified_since_set))
          /\ state_file.next_verify_at = [kind |-> "rfc3339", t |-> pin_last.result.next_verify_at]

\* The third successful verification since the PIN was set, some time after it,
\* under the adaptive schedule.
C25_Witness ==
    /\ pin_last.op = "verify_pin_attempt"
    /\ pin_last.result.tag = "Verified"
    /\ policy.pin_adaptive_schedule
    /\ pin_log.verified_since_set = 3
    /\ now > 0
    /\ pin_last.result.next_verify_at = now + Days(policy.pin_reverify_days)

\* Inside the reminder window gate_status carries a reminder exactly as long as
\* mark_reminder_sent has not been called in that window.
RemindsUntilMarked ==
    IF pin_log.reminded
    THEN pin_last.result = Open(None)
    ELSE /\ pin_last.result.tag = "Open"
         /\ pin_last.result.reminder # None

\* C26 as stated: inside the pin_reminder_hours_before window before
\* next_verify_at gate_status reports a reminder until mark_reminder_sent is
\* called in that window, and Open with no reminder for the rest of that window.
C26_ReminderOncePerWindow ==
    (pin_last.op = "gate_status" /\ InWindow) => RemindsUntilMarked

\* C26 amended: the same, while pin_verification is enabled, a PIN is configured
\* and no lockout is in force.
C26_ReminderOncePerOpenWindow ==
    (pin_last.op = "gate_status" /\ InWindow /\ policy.pin_verification
        /\ state_file.pin_hash.plain # <<>> /\ ~InFuture(state_file.locked_until)) =>
        RemindsUntilMarked

\* Later in the window in which the reminder was marked as sent, the gate is
\* open without a reminder.
C26_Witness ==
    /\ pin_last.op = "gate_status"
    /\ InWindow
    /\ policy.pin_verification
    /\ pin_log.reminded
    /\ state_file.last_reminder_at.kind = "rfc3339"
    /\ state_file.last_reminder_at.t < now
    /\ pin_last.result = Open(None)

\* C27: verify_pin_without_side_effects never changes the persisted PIN state
\* (verification_count, failed_attempts, locked_until and the schedule are the
\* same before and after the call, for a correct and for an incorrect PIN), and
\* it returns false when the state is missing or corrupt.
C27_VerifyHasNoSideEffects ==
    [][pin_last'.op = "verify_pin_without_side_effects" =>
          /\ state_file' = state_file
          /\ (state_file.kind = "missing" \/ ~Parses(state_file)) => pin_last'.result = FALSE]_vars

\* The correct PIN checked without side effects after one failed attempt, which
\* stays counted.
C27_Witness ==
    /\ pin_last.op = "verify_pin_without_side_effects"
    /\ pin_last.pin = pin_log.pin
    /\ pin_last.result = TRUE
    /\ pin_log.wrong_since_set = 1
    /\ state_file.failed_attempts = 1
    /\ state_file.verification_count = 0

\* ======================================================== task_plan tool
\* src/tools/task_plan.rs: the session-scoped checklist behind the task_plan
\* tool. One call of execute is one step.

\* ---------------------------------------------------------------- bounds
\* The longest tasks array of a create call, and the longest checklist.
MaxTasks == 2

\* serde_json::Value, as far as the tool looks into it.
Absent == [type |-> "absent"]
JString(s) == [type |-> "string", s |-> s]
JNumber(n) == [type |-> "number", n |-> n]
JArray(items) == [type |-> "array", items |-> items]
JObject(title, status) == [type |-> "object", title |-> title, status |-> status]

\* str::to_ascii_lowercase
to_ascii_lowercase(text) ==
    CASE text = "Completed" -> "completed"
      [] text = "DELETE" -> "delete"
      [] OTHER -> text

\* TaskStatus::parse
TaskStatus_parse(raw) ==
    LET s == to_ascii_lowercase(trim(raw))
    IN  IF s \in {"pending", "in_progress", "completed"}
        THEN [some |-> TRUE, status |-> s]
        ELSE [some |-> FALSE]

NoOutput == [message |-> ""]
\* TaskPlanTool::fail
fail(message) == [success |-> FALSE, output |-> NoOutput, error |-> message]
\* TaskPlanTool::success
success(payload) == [success |-> TRUE, output |-> payload, error |-> "None"]

\* TaskPlanState::ensure_next_id_initialized
ensure_next_id_initialized(st) ==
    IF st.next_id = 0 THEN [st EXCEPT !.next_id = 1] ELSE st

\* TaskPlanState::clear
clear(st) == [tasks |-> <<>>, next_id |-> 1]

\* TaskPlanState::add_task; next_id stays far below u64::MAX, where the
\* saturating add would stop it.
add_task(st, title, status) ==
    LET ready == ensure_next_id_initialized(st)
    IN  [state |-> [tasks |-> Append(ready.tasks, [id |-> ready.next_id, title |-> title,
                                                    status |-> status]),
                    next_id |-> ready.next_id + 1],
         id |-> ready.next_id]

RECURSIVE add_tasks(_, _)
add_tasks(st, tasks) ==
    IF tasks = <<>> THEN st
    ELSE add_tasks(add_task(st, Head(tasks)[1], Head(tasks)[2]).state, Tail(tasks))

set_tasks_appending(st, tasks) == add_tasks(st, tasks)
\* TaskPlanState::set_tasks
set_tasks(st, tasks) == add_tasks(clear(st), tasks)

\* TaskPlanState::update_status: the first task with that id
update_status(st, id, status) ==
    IF \E i \in 1..Len(st.tasks) : st.tasks[i].id = id
    THEN LET i == CHOOSE k \in 1..Len(st.tasks) :
                      /\ st.tasks[k].id = id
                      /\ \A j \in 1..(k - 1) : st.tasks[j].id # id
         IN  [found |-> TRUE, state |-> [st EXCEPT !.tasks[i].status = status]]
    ELSE [found |-> FALSE, state |-> st]

CountStatus(tasks, status) == Cardinality({i \in 1..Len(tasks) : tasks[i].status = status})
\* TaskPlanState::snapshot_json
snapshot_json(st) ==
    [summary |-> [total |-> Len(st.tasks),
                  pending |-> CountStatus(st.tasks, "pending"),
                  in_progress |-> CountStatus(st.tasks, "in_progress"),
                  completed |-> CountStatus(st.tasks, "completed")],
     tasks |-> st.tasks]

\* The error texts are kept without the field names and indexes the code
\* formats into them.
\* TaskPlanTool::parse_non_empty_title
parse_non_empty_title(value, field) ==
    IF value.type # "string" THEN [ok |-> FALSE, error |-> fail("must be a string")]
    ELSE IF trim(value.s) = "" THEN [ok |-> FALSE, error |-> fail("must not be empty")]
    ELSE [ok |-> TRUE, title |-> trim(value.s)]

\* TaskPlanTool::parse_status_value
parse_status_value(raw, field) ==
    IF raw.type # "string" THEN [ok |-> FALSE, error |-> fail("must be a string")]
    ELSE IF ~TaskStatus_parse(raw.s).some
         THEN [ok |-> FALSE, error |-> fail("Invalid status. Use pending|in_progress|completed")]
    ELSE [ok |-> TRUE, status |-> TaskStatus_parse(raw.s).status]

\* The body of the loop of parse_create_tasks, for the entry at index.
parse_create_task(task, index) ==
    IF task.type = "string"
    THEN IF parse_non_empty_title(task, "title").ok
         THEN [ok |-> TRUE, task |-> <<parse_non_empty_title(task, "title").title, "pending">>]
         ELSE [ok |-> FALSE, error |-> fail("must not be an empty string title")]
    ELSE IF task.type # "object"
    THEN [ok |-> FALSE,
          error |-> fail("must be either a string title or object with title/status")]
    ELSE IF task.title = Absent
    THEN [ok |-> FALSE, error |-> fail("Missing title")]
    ELSE IF ~parse_non_empty_title(task.title, "title").ok
    THEN [ok |-> FALSE, error |-> parse_non_empty_title(task.title, "title").error]
    ELSE IF task.status # Absent /\ ~parse_status_value(task.status, "status").ok
    THEN [ok |-> FALSE, error |-> parse_status_value(task.status, "status").error]
    ELSE [ok |-> TRUE,
          task |-> <<parse_non_empty_title(task.title, "title").title,
                     IF task.status = Absent THEN "pending"
                     ELSE parse_status_value(task.status, "status").status>>]

\* TaskPlanTool::parse_create_tasks: the first entry that does not parse ends
\* the call with its error.
parse_create_tasks(args) ==
    IF args.tasks = Absent
    THEN [ok |-> FALSE, error |-> fail("Missing 'tasks' parameter for action 'create'")]
    ELSE IF args.tasks.type # "array"
    THEN [ok |-> FALSE, error |-> fail("'tasks' must be an array")]
    ELSE LET task_entries == args.tasks.items
             each == [i \in 1..Len(task_entries) |-> parse_create_task(task_entries[i], i - 1)]
             bad == {i \in 1..Len(task_entries) : ~each[i].ok}
         IN  IF task_entries = <<>>
             THEN [ok |-> FALSE,
                   error |-> fail("'tasks' must include at least one task for action 'create'")]
             ELSE IF bad # {}
             THEN LET first == CHOOSE i \in bad : \A j \in bad : i <= j
                  IN  [ok |-> FALSE, error |-> each[first].error]
             ELSE [ok |-> TRUE, parsed |-> [i \in 1..Len(task_entries) |-> each[i].task]]

\* TaskPlanTool::handle_create
handle_create(st, args) ==
    LET parsed == parse_create_tasks(args)
        created == set_tasks(st, parsed.parsed)
    IN  IF ~parsed.ok
        THEN [state |-> st, result |-> parsed.error]
        ELSE [state |-> created,
              result |-> success([message |-> "Task plan created", plan |-> snapshot_json(created)])]

\* TaskPlanTool::handle_add
handle_add(st, args) ==
    IF args.title = Absent
    THEN [state |-> st, result |-> fail("Missing 'title' parameter for action 'add'")]
    ELSE IF ~parse_non_empty_title(args.title, "title").ok
    THEN [state |-> st, result |-> parse_non_empty_title(args.title, "title").error]
    ELSE LET added == add_task(st, parse_non_empty_title(args.title, "title").title, "pending")
         IN  [state |-> added.state,
              result |-> success([message |-> "Task added", task_id |-> added.id,
                                  plan |-> snapshot_json(added.state)])]

\* TaskPlanTool::handle_update
handle_update(st, args) ==
    IF args.task_id.type # "number"
    THEN [state |-> st,
          result |-> fail("Missing or invalid 'task_id' parameter for action 'update'")]
    ELSE IF args.status = Absent
    THEN [state |-> st, result |-> fail("Missing 'status' parameter for action 'update'")]
    ELSE IF ~parse_status_value(args.status, "status").ok
    THEN [state |-> st, result |-> parse_status_value(args.status, "status").error]
    ELSE LET status == parse_status_value(args.status, "status").status
             updated == update_status(st, args.task_id.n, status)
         IN  IF ~updated.found
             THEN [state |-> st, result |-> fail("Task with id was not found")]
             ELSE [state |-> updated.state,
                   result |-> success([message |-> "Task updated", task_id |-> args.task_id.n,
                                       status |-> status, plan |-> snapshot_json(updated.state)])]

\* TaskPlanTool::handle_list
handle_list(st) ==
    [state |-> st, result |-> success([message |-> "Task plan listed", plan |-> snapshot_json(st)])]

\* TaskPlanTool::handle_delete
handle_delete(st) ==
    [state |-> clear(st),
     result |-> success([message |-> "Task plan cleared", plan |-> snapshot_json(clear(st))])]

\* SecurityPolicy::enforce_tool_operation(ToolOperation::Act, _): the verdicts
\* the policy can give. A read-only policy refuses every act; an hourly budget
\* of zero refuses every act; otherwise the act passes unless the budget of
\* this hour is used up.
Ok == [ok |-> TRUE]
Err(error) == [ok |-> FALSE, error |-> error]
enforce_tool_operation(sec) ==
    IF sec.autonomy = "ReadOnly" THEN {Err("Security policy: read-only mode")}
    ELSE IF sec.max_actions_per_hour = 0 THEN {Err("Rate limit exceeded")}
    ELSE {Ok, Err("Rate limit exceeded")}

enforced_for_create_only(action) == action = "create"
\* execute: every action but list is a mutation
enforced(action) == action # "list"

\* TaskPlanTool::execute, under the verdict the security policy gives.
execute(verdict, st, args) ==
    IF args.action.type # "string"
    THEN [state |-> st, result |-> fail("Missing 'action' parameter")]
    ELSE IF trim(args.action.s) = ""
    THEN [state |-> st, result |-> fail("'action' must not be empty")]
    ELSE LET action == to_ascii_lowercase(trim(args.action.s))
         IN  IF enforced(action) /\ ~verdict.ok
             THEN [state |-> st, result |-> fail(verdict.error)]
             ELSE CASE action = "create" -> handle_create(st, args)
                    [] action = "add" -> handle_add(st, args)
                    [] action = "update" -> handle_update(st, args)
                    [] action = "list" -> handle_list(st)
                    [] action = "delete" -> handle_delete(st)
                    [] OTHER -> [state |-> st,
                                 result |-> fail("Unknown action. Use create|add|update|list|delete")]

\* ------------------------------------------------------------- the calls
\* The entries parse_create_tasks takes, and those it refuses.
ValidEntries ==
    {JString("b"),
     JObject(JString("b"), Absent),
     JObject(JString(" a "), JString(" Completed "))}
MalformedEntries ==
    {JString(" "),
     JObject(JString("a"), JString("done")),
     JObject(JString("a"), JNumber(1)),
     JObject(JString(" "), Absent),
     JObject(Absent, JString("pending")),
     JObject(JNumber(7), Absent),
     JNumber(1)}
\* Arrays of valid entries, and arrays with one malformed entry at any place
\* among valid ones.
MalformedArrays ==
    {[i \in 1..n |-> IF i = k THEN bad ELSE JString("b")] :
        n \in 1..MaxTasks, k \in 1..MaxTasks, bad \in MalformedEntries}
TasksValues ==
    {Absent, JString("b")}
        \cup {JArray(items) : items \in SeqsUpTo(ValidEntries, MaxTasks) \cup MalformedArrays}
Args(action, tasks, title, id, status) ==
    [action |-> action, tasks |-> tasks, title |-> title, task_id |-> id, status |-> status]
CreateCalls == {Args(JString("create"), tasks, Absent, Absent, Absent) : tasks \in TasksValues}
AddCalls ==
    {Args(JString("add"), Absent, title, Absent, Absent) :
        title \in {Absent, JString("b"), JString(" "), JNumber(7)}}
UpdateCalls ==
    {Args(JString("update"), Absent, Absent, id, status) :
        id \in {Absent, JNumber(1), JNumber(MaxTasks), JNumber(MaxTasks + 1)},
        status \in {Absent, JString(" Completed "), JString("done")}}
ListCalls == {Args(JString("list"), Absent, Absent, Absent, Absent)}
DeleteCalls == {Args(JString(action), Absent, Absent, Absent, Absent) : action \in {"delete", "DELETE"}}
OtherCalls ==
    {Args(action, Absent, JString("b"), Absent, Absent) :
        action \in {Absent, JNumber(1), JString(" "), JString("archive")}}

\* SecurityPolicy::default() is supervised; the others are the policies of
\* the tests.
SecurityPolicies ==
    {[autonomy |-> "Supervised", max_actions_per_hour |-> 20],
     [autonomy |-> "ReadOnly", max_actions_per_hour |-> 20],
     [autonomy |-> "Supervised", max_actions_per_hour |-> 0]}

\* TaskPlanTool::new
PlanInit ==
    /\ DispatchParked
    /\ PluginParked
    /\ DoctorParked
    /\ PinParked
    /\ CronParked
    /\ StreamParked
    /\ security \in SecurityPolicies
    /\ plan_state = [tasks |-> <<>>, next_id |-> 1]
    /\ plan_last = NoCall

planFrame == <<dispatchVars, pluginVars, doctorVars, pinVars, cronVars, streamVars>>

\* One call of execute; plan_last keeps the arguments, the result and the
\* state the call found.
Execute(args) ==
    /\ \E verdict \in enforce_tool_operation(security) :
          LET done == execute(verdict, plan_state, args)
          IN  /\ Len(done.state.tasks) <= MaxTasks
              /\ plan_state' = done.state
              /\ plan_last' = [op |-> "execute", args |-> args, result |-> done.result,
                               before |-> plan_state]
    /\ UNCHANGED <<security, planFrame>>

PlanCreate == \E args \in CreateCalls : Execute(args)
PlanAdd == \E args \in AddCalls : Execute(args)
PlanUpdate == \E args \in UpdateCalls : Execute(args)
PlanList == \E args \in ListCalls : Execute(args)
PlanDelete == \E args \in DeleteCalls : Execute(args)
PlanOther == \E args \in OtherCalls : Execute(args)

PlanNext ==
    \/ PlanCreate
    \/ PlanAdd
    \/ PlanUpdate
    \/ PlanList
    \/ PlanDelete
    \/ PlanOther

PlanSpec == PlanInit /\ [][PlanNext]_vars

\* The action of the last call, as execute reads it.
LastAction ==
    IF plan_last.op = "execute" /\ plan_last.args.action.type = "string"
    THEN to_ascii_lowercase(trim(plan_last.args.action.s))
    ELSE "none"

\* What a tasks entry asks for: a title, or a title and a status.
WellFormedEntry(task) ==
    \/ task.type = "string" /\ trim(task.s) # ""
    \/ /\ task.type = "object"
       /\ task.title.type = "string"
       /\ trim(task.title.s) # ""
       /\ \/ task.status = Absent
          \/ /\ task.status.type = "string"
             /\ to_ascii_lowercase(trim(task.status.s)) \in {"pending", "in_progress", "completed"}
GivenTitle(task) == IF task.type = "string" THEN trim(task.s) ELSE trim(task.title.s)
GivenStatus(task) ==
    IF task.type = "string" \/ task.status = Absent THEN "pending"
    ELSE to_ascii_lowercase(trim(task.status.s))
WellFormedTasks(tasks) ==
    /\ tasks.type = "array"
    /\ tasks.items # <<>>
    /\ \A i \in 1..Len(tasks.items) : WellFormedEntry(tasks.items[i])

\* C28: a create call that succeeds leaves exactly the tasks of its tasks
\* array in the plan, in the given order, with the ids 1, 2, ... (so unique),
\* each with its (trimmed) title and its status, pending when none is given;
\* a create call whose tasks array is missing, not an array, empty or holds a
\* malformed entry fails, and a create call that fails leaves the plan as it
\* found it.
C28_CreateReplacesPlan ==
    LastAction = "create" =>
        LET given == plan_last.args.tasks
        IN  /\ ~WellFormedTasks(given) => ~plan_last.result.success
            /\ ~plan_last.result.success => plan_state = plan_last.before
            /\ plan_last.result.success =>
                  /\ WellFormedTasks(given)
                  /\ Len(plan_state.tasks) = Len(given.items)
                  /\ \A i \in 1..Len(given.items) :
                        plan_state.tasks[i] = [id |-> i, title |-> GivenTitle(given.items[i]),
                                               status |-> GivenStatus(given.items[i])]
                  /\ plan_last.result.output.plan.tasks = plan_state.tasks

\* A create call with one task has replaced a checklist of two.
C28_Witness ==
    /\ LastAction = "create"
    /\ plan_last.result.success
    /\ Len(plan_last.before.tasks) = 2
    /\ Len(plan_state.tasks) = 1
    /\ plan_state.tasks[1].id = 1
    /\ plan_state.tasks[1] # plan_last.before.tasks[1]

\* C29: under a read-only security policy a create, add, update or delete
\* call fails and leaves the task list as it was, and a list call succeeds and
\* returns the plan as it is.
C29_ReadOnlyBlocksMutations ==
    (security.autonomy = "ReadOnly" /\ plan_last.op = "execute") =>
        /\ LastAction \in {"create", "add", "update", "delete"} =>
              /\ ~plan_last.result.success
              /\ plan_state = plan_last.before
        /\ LastAction = "list" =>
              /\ plan_last.result.success
              /\ plan_last.result.output.plan = snapshot_json(plan_state)
              /\ plan_state = plan_last.before

\* A read-only policy has refused a create call that is otherwise in order.
C29_Witness ==
    /\ security.autonomy = "ReadOnly"
    /\ LastAction = "create"
    /\ WellFormedTasks(plan_last.args.tasks)
    /\ ~plan_last.result.success
    /\ plan_last.result.error = "Security policy: read-only mode"
    /\ plan_state.tasks = <<>>

\* =================================================== cron command handler
\* src/cron/mod.rs: handle_command over the job store. One command is one
\* step. The one-shot and interval forms of add go through add_shell_job like
\* Add and are left out.

\* ---------------------------------------------------------------- bounds
\* The most jobs the store holds.
MaxJobs == 1

\* Option<T>
Some(v) == [some |-> TRUE, v |-> v]
Nothing == [some |-> FALSE]

\* Schedule::Cron { expr, tz }
ScheduleCron(expr, tz) == [kind |-> "cron", expr |-> expr, tz |-> tz]

\* CronJobPatch { schedule, command, name, enabled, .. }
CronJobPatch(schedule, command, name, enabled) ==
    [schedule |-> schedule, command |-> command, name |-> name, enabled |-> enabled]

JobIds == 1..MaxJobs
\* An id no job has.
NoSuchJob == MaxJobs + 1

\* store::add_shell_job: a new enabled job under a fresh id.
add_shell_job(store, id, name, schedule, command) ==
    [i \in DOMAIN store \cup {id} |->
        IF i = id
        THEN [id |-> id, expression |-> schedule.expr, schedule |-> schedule,
              command |-> command, name |-> name, enabled |-> TRUE]
        ELSE store[i]]

\* store::update_job: the fields the patch holds replace the job's, the others
\* stay; there must be a job with that id.
update_job(store, id, patch) ==
    IF id \notin DOMAIN store THEN [ok |-> FALSE, jobs |-> store]
    ELSE LET job == store[id]
             patched ==
                 [id |-> job.id,
                  expression |-> IF patch.schedule.some THEN patch.schedule.v.expr ELSE job.expression,
                  schedule |-> IF patch.schedule.some THEN patch.schedule.v ELSE job.schedule,
                  command |-> IF patch.command.some THEN patch.command.v ELSE job.command,
                  name |-> IF patch.name.some THEN patch.name ELSE job.name,
                  enabled |-> IF patch.enabled.some THEN patch.enabled.v ELSE job.enabled]
         IN  [ok |-> TRUE, jobs |-> [store EXCEPT ![id] = patched]]

\* store::remove_job
remove_job(store, id) ==
    IF id \notin DOMAIN store THEN [ok |-> FALSE, jobs |-> store]
    ELSE [ok |-> TRUE, jobs |-> [i \in DOMAIN store \ {id} |-> store[i]]]

\* SecurityPolicy::is_command_allowed, under the default autonomy config
is_command_allowed(cmd) == cmd # "rm -rf /"

\* expression.map(|expr| Schedule::Cron { expr, tz })
schedule_of_update(expression, tz) ==
    IF expression.some THEN Some(ScheduleCron(expression.v, tz)) ELSE Nothing

\* handle_command, CronCommands::Update
handle_command_update(store, id, expression, tz, command, name) ==
    LET schedule == schedule_of_update(expression, tz)
        patch == CronJobPatch(schedule, command, name, Nothing)
    IN  IF command.some /\ ~is_command_allowed(command.v)
        THEN [ok |-> FALSE, jobs |-> store]
        ELSE update_job(store, id, patch)

\* cron::pause_job
pause_job(store, id) == update_job(store, id, CronJobPatch(Nothing, Nothing, Nothing, Some(FALSE)))
\* cron::resume_job
resume_job(store, id) == update_job(store, id, CronJobPatch(Nothing, Nothing, Nothing, Some(TRUE)))

Timezones == {Nothing, Some("America/Los_Angeles")}
\* The update commands: a timezone alone, an expression alone, both, a
\* command, a blocked command, a name, nothing.
UpdateCommands ==
    {[expression |-> Nothing, tz |-> Some("America/Los_Angeles"), command |-> Nothing, name |-> Nothing],
     [expression |-> Some("0 9 * * *"), tz |-> Nothing, command |-> Nothing, name |-> Nothing],
     [expression |-> Some("0 9 * * *"), tz |-> Some("America/Los_Angeles"), command |-> Nothing,
      name |-> Nothing],
     [expression |-> Nothing, tz |-> Nothing, command |-> Some("echo updated"), name |-> Nothing],
     [expression |-> Nothing, tz |-> Nothing, command |-> Some("rm -rf /"), name |-> Nothing],
     [expression |-> Nothing, tz |-> Nothing, command |-> Nothing, name |-> Some("new-name")],
     [expression |-> Nothing, tz |-> Nothing, command |-> Nothing, name |-> Nothing]}

\* An empty job store.
CronInit ==
    /\ DispatchParked
    /\ PluginParked
    /\ DoctorParked
    /\ PinParked
    /\ PlanParked
    /\ StreamParked
    /\ jobs = <<>>
    /\ cron_last = NoCall

cronFrame == <<dispatchVars, pluginVars, doctorVars, pinVars, planVars, streamVars>>

\* cron_last keeps the command, whether it succeeded and the store it found.
CronList ==
    /\ cron_last' = [op |-> "list", ok |-> TRUE, before |-> jobs]
    /\ UNCHANGED <<jobs, cronFrame>>

CronAdd(tz) ==
    /\ \E id \in JobIds \ DOMAIN jobs :
          /\ jobs' = add_shell_job(jobs, id, Nothing, ScheduleCron("*/5 * * * *", tz), "echo test")
          /\ cron_last' = [op |-> "add", id |-> id, tz |-> tz, ok |-> TRUE, before |-> jobs]
    /\ UNCHANGED cronFrame

CronUpdate(id, update) ==
    LET done == handle_command_update(jobs, id, update.expression, update.tz, update.command,
                                      update.name)
    IN  /\ jobs' = done.jobs
        /\ cron_last' = [op |-> "update", id |-> id, update |-> update, ok |-> done.ok,
                         before |-> jobs]
        /\ UNCHANGED cronFrame

CronRemove(id) ==
    /\ jobs' = remove_job(jobs, id).jobs
    /\ cron_last' = [op |-> "remove", id |-> id, ok |-> remove_job(jobs, id).ok, before |-> jobs]
    /\ UNCHANGED cronFrame

CronPause(id) ==
    /\ jobs' = pause_job(jobs, id).jobs
    /\ cron_last' = [op |-> "pause", id |-> id, ok |-> pause_job(jobs, id).ok, before |-> jobs]
    /\ UNCHANGED cronFrame

CronResume(id) ==
    /\ jobs' = resume_job(jobs, id).jobs
    /\ cron_last' = [op |-> "resume", id |-> id, ok |-> resume_job(jobs, id).ok, before |-> jobs]
    /\ UNCHANGED cronFrame

CronNext ==
    \/ CronList
    \/ \E tz \in Timezones : CronAdd(tz)
    \/ \E id \in JobIds \cup {NoSuchJob}, update \in UpdateCommands : CronUpdate(id, update)
    \/ \E id \in JobIds \cup {NoSuchJob} : CronRemove(id)
    \/ \E id \in JobIds \cup {NoSuchJob} : CronPause(id)
    \/ \E id \in JobIds \cup {NoSuchJob} : CronResume(id)

CronSpec == CronInit /\ [][CronNext]_vars

\* The last command was an update of an existing cron-scheduled job that gave
\* a timezone and nothing else.
TimezoneAloneUpdate ==
    /\ cron_last.op = "update"
    /\ cron_last.id \in DOMAIN cron_last.before
    /\ cron_last.before[cron_last.id].schedule.kind = "cron"
    /\ cron_last.update.tz.some
    /\ ~cron_last.update.expression.some
    /\ ~cron_last.update.command.some
    /\ ~cron_last.update.name.some

\* C30: after a cron update command that supplies only a timezone, the job's
\* schedule is the cron schedule with its old expression and that timezone,
\* and the job's other fields are as before.
C30_TimezoneAloneSetsTimezone ==
    TimezoneAloneUpdate =>
        LET old == cron_last.before[cron_last.id]
        IN  /\ cron_last.id \in DOMAIN jobs
            /\ jobs[cron_last.id] =
                  [old EXCEPT !.schedule = ScheduleCron(old.schedule.expr, cron_last.update.tz)]

\* ============================================ dispatch loop, further claims
\* C31 as stated: a worker that waits for the completion signal of the task it
\* superseded holds the lock of the interruption map.
C31_LockHeldAcrossWait ==
    \A w \in Workers : pc[w] = "wait_previous" => active = w

\* C31 amended: the lock of the interruption map is held for the insert and
\* for the removal only; a worker that cancels or waits for the task it
\* superseded does not hold it.
C31_LockReleasedBeforeWait ==
    \A w \in Workers :
        /\ active = w <=> pc[w] \in {"inserting", "cleaning"}
        /\ pc[w] \in {"cancel_previous", "wait_previous"} => active # w

\* A superseded task holds the lock for its removal step while the task that
\* superseded it waits for its completion signal.
C31_Witness ==
    \E old, new \in Workers :
        /\ pc[new] = "wait_previous"
        /\ previous[new] = old
        /\ pc[old] = "cleaning"
        /\ active = old

\* The channel calls worker w makes in the step.
CallsAdded(w) == SubSeq(calls'[w], Len(calls[w]) + 1, Len(calls'[w]))

\* C32: the step in which a pipeline run ends Cancelled (the select took the
\* cancellation branch, or the provider call returned an error that is
\* cancellation-shaped or found the token cancelled) leaves every conversation
\* history as it was, cancels the draft exactly when one is open, and makes no
\* call that delivers a message (send, finalize_draft, send_draft).
C32_CancelledOnlyCancelsDraft ==
    [][\A w \in Workers :
          EndsAs(w, "cancelled") =>
              /\ llm_result[w] \in {"cancelled"} \cup ErrResults
              /\ conversation_histories' = conversation_histories
              /\ \A i \in 1..Len(CallsAdded(w)) :
                    CallsAdded(w)[i].op \in {"cancel_draft", "remove_reaction", "add_reaction"}
              /\ Cardinality({i \in 1..Len(CallsAdded(w)) : CallsAdded(w)[i].op = "cancel_draft"})
                    = (IF draft_message_id[w] THEN 1 ELSE 0)]_vars

\* A run with an open draft ended Cancelled on a cancellation-shaped provider
\* error: its draft was cancelled, nothing was delivered, and its user turn is
\* the last turn of its conversation.
C32_Witness ==
    \E w \in Workers :
        /\ outcome[w] = "cancelled"
        /\ llm_result[w] = "err_cancelled"
        /\ draft_message_id[w]
        /\ Count(w, "cancel_draft") = 1
        /\ Count(w, "send") = 0
        /\ Count(w, "finalize_draft") = 0
        /\ Len(HistoryOf(w)) > 0
        /\ HistoryOf(w)[Len(HistoryOf(w))] = Turn("user", msg[w].content)

\* ========================================================= draft streaming
\* process_channel_message on a registered channel, from the draft streaming
\* decision to the reaction swap, with the draft-updater task and the deltas of
\* the tool loop as steps of their own.

\* The deltas the tool loop sends in one run, at most.
MaxDeltas == 3
\* tokio::sync::mpsc::channel::<String>(64), scaled: the deltas the channel buffers.
DeltaCapacity == 2

\* crate::agent::loop_::DRAFT_CLEAR_SENTINEL
DRAFT_CLEAR_SENTINEL == "<clear>"
Deltas == {"a", "b", DRAFT_CLEAR_SENTINEL}

\* What the select over the token and the timed tool loop can yield in a run.
StreamResults == {"ok", "err_other", "timeout"}

StreamCall(op, text, result) == [op |-> op, text |-> text, result |-> result]

\* The run is at the draft streaming decision; the channel may support drafts.
StreamInit ==
    /\ DispatchParked
    /\ PluginParked
    /\ DoctorParked
    /\ PinParked
    /\ PlanParked
    /\ CronParked
    /\ \E supports_draft_updates \in BOOLEAN :
          stream = [pc |-> "start", use_streaming |-> supports_draft_updates,
                    cancellation_token |-> FALSE, delta_tx |-> "none", delta_rx |-> <<>>,
                    draft_message_id |-> FALSE, draft_updater |-> "none", accumulated |-> "",
                    sent |-> <<>>, llm_result |-> "none", calls |-> <<>>]

streamFrame == <<dispatchVars, pluginVars, doctorVars, pinVars, planVars, cronVars>>

\* Lines 140-166: the delta channel and the placeholder draft. send_draft
\* returns Ok(Some(id)), or Ok(None) or an error, which both leave no draft.
StreamSendDraft ==
    /\ stream.pc = "start"
    /\ \E id \in (IF stream.use_streaming THEN BOOLEAN ELSE {FALSE}) :
          stream' = [stream EXCEPT
                !.pc = "spawn",
                !.delta_tx = IF stream.use_streaming THEN "open" ELSE "none",
                !.draft_message_id = id,
                !.calls = IF stream.use_streaming
                          THEN Append(@, StreamCall("send_draft", "...", IF id THEN "ok" ELSE "err"))
                          ELSE @]
    /\ UNCHANGED streamFrame

\* Lines 168-204: the draft updater is spawned when there is a receiver and a
\* draft id (the receiver is dropped otherwise); the received reaction.
StreamSpawnUpdater ==
    /\ stream.pc = "spawn"
    /\ stream' = [stream EXCEPT
            !.pc = "select",
            !.draft_updater = IF stream.delta_tx = "open" /\ stream.draft_message_id
                              THEN "recv" ELSE "none",
            !.calls = Append(@, StreamCall("add_reaction", "eyes", "ignored"))]
    /\ UNCHANGED streamFrame

\* run_tool_call_loop sends a delta through delta_tx: it waits while the
\* channel is full, and the send fails at once when there is no receiver.
ToolLoopSends(delta) ==
    /\ stream.pc = "select"
    /\ stream.delta_tx = "open"
    /\ Len(stream.sent) < MaxDeltas
    /\ stream.draft_updater = "none" \/ Len(stream.delta_rx) < DeltaCapacity
    /\ stream' = [stream EXCEPT
            !.sent = Append(@, delta),
            !.delta_rx = IF stream.draft_updater = "none" THEN @ ELSE Append(@, delta)]
    /\ UNCHANGED streamFrame

\* A newer message of the scope cancels the token (line 655 of its worker).
StreamCancel ==
    /\ stream.pc # "done"
    /\ ~stream.cancellation_token
    /\ stream' = [stream EXCEPT !.cancellation_token = TRUE]
    /\ UNCHANGED streamFrame

\* Lines 226-253: the select returns; the future of the tool loop, and with it
\* delta_tx, is dropped whichever branch was taken.
StreamSelect ==
    /\ stream.pc = "select"
    /\ \E r \in StreamResults \cup (IF stream.cancellation_token
                                    THEN {"cancelled", "err_cancelled"} ELSE {}) :
          stream' = [stream EXCEPT
                !.pc = "await",
                !.llm_result = r,
                !.delta_tx = IF @ = "open" THEN "dropped" ELSE @]
    /\ UNCHANGED streamFrame

\* UpdaterRecv as it would be if the clear sentinel were rendered like a delta
\* that carries no text.
UpdaterRecvKeepsText ==
    /\ stream.draft_updater = "recv"
    /\ stream.delta_rx # <<>>
    /\ LET delta == Head(stream.delta_rx)
       IN stream' = [stream EXCEPT
               !.delta_rx = Tail(@),
               !.accumulated = IF delta = DRAFT_CLEAR_SENTINEL THEN @ ELSE @ \o delta,
               !.draft_updater = IF delta = DRAFT_CLEAR_SENTINEL THEN "recv" ELSE "update"]
    /\ UNCHANGED streamFrame

\* Lines 178-183: rx.recv() yields a delta; the sentinel clears the text and
\* the loop continues, any other delta is pushed onto it.
UpdaterRecv ==
    /\ stream.draft_updater = "recv"
    /\ stream.delta_rx # <<>>
    /\ LET delta == Head(stream.delta_rx)
       IN stream' = [stream EXCEPT
               !.delta_rx = Tail(@),
               !.accumulated = IF delta = DRAFT_CLEAR_SENTINEL THEN "" ELSE @ \o delta,
               !.draft_updater = IF delta = DRAFT_CLEAR_SENTINEL THEN "recv" ELSE "update"]
    /\ UNCHANGED streamFrame

\* Lines 184-189: update_draft with the accumulated text; a failure is logged.
UpdaterUpdates ==
    /\ stream.draft_updater = "update"
    /\ stream' = [stream EXCEPT
            !.draft_updater = "recv",
            !.calls = Append(@, StreamCall("update_draft", stream.accumulated, "ignored"))]
    /\ UNCHANGED streamFrame

\* Line 178: rx.recv() yields None once the sender is dropped and the channel
\* is drained; the task ends.
UpdaterEnds ==
    /\ stream.draft_updater = "recv"
    /\ stream.delta_rx = <<>>
    /\ stream.delta_tx = "dropped"
    /\ stream' = [stream EXCEPT !.draft_updater = "ended"]
    /\ UNCHANGED streamFrame

\* StreamAwaitUpdater as it would be if the updater were left running detached.
StreamLeavesUpdater ==
    /\ stream.pc = "await"
    /\ stream' = [stream EXCEPT !.pc = "handle"]
    /\ UNCHANGED streamFrame

\* Lines 255-257: handle.await on the draft updater, if one was spawned.
StreamAwaitUpdater ==
    /\ stream.pc = "await"
    /\ stream.draft_updater \in {"none", "ended"}
    /\ stream' = [stream EXCEPT !.pc = "handle"]
    /\ UNCHANGED streamFrame

\* The delivery of a text: into the open draft, falling back to a send when
\* asked to and finalize_draft fails, else a fresh send.
StreamDeliver(text, finalize_ok, fallback) ==
    IF stream.draft_message_id
    THEN IF finalize_ok \/ ~fallback
         THEN <<StreamCall("finalize_draft", text, IF fallback THEN "ok" ELSE "ignored")>>
         ELSE <<StreamCall("finalize_draft", text, "err"), StreamCall("send", text, "ignored")>>
    ELSE <<StreamCall("send", text, "ignored")>>

\* Lines 271-602: the outcome is handled and the reaction swapped. A hook may
\* veto a reply, which returns at once.
StreamHandle ==
    /\ stream.pc = "handle"
    /\ \E finalize_ok \in BOOLEAN, veto \in BOOLEAN :
       LET r == stream.llm_result
           is_cancelled == \/ r = "cancelled"
                           \/ r \in {"err_cancelled", "err_other"} /\ (r = "err_cancelled" \/ stream.cancellation_token)
           outcome_calls ==
               IF is_cancelled
               THEN IF stream.draft_message_id THEN <<StreamCall("cancel_draft", "", "ignored")>> ELSE <<>>
               ELSE IF r = "ok" THEN StreamDeliver("reply", finalize_ok, TRUE)
               ELSE IF r = "timeout" THEN StreamDeliver("timeout_notice", TRUE, FALSE)
               ELSE StreamDeliver(RAW_ERROR, TRUE, FALSE)
           swap == <<StreamCall("remove_reaction", "eyes", "ignored"),
                     StreamCall("add_reaction", IF r = "ok" THEN "check" ELSE "warning", "ignored")>>
       IN  /\ veto => r = "ok"
           /\ ~finalize_ok => r = "ok" /\ stream.draft_message_id /\ ~veto
           /\ stream' = [stream EXCEPT
                   !.pc = "done",
                   !.calls = IF veto THEN @ ELSE @ \o outcome_calls \o swap]
    /\ UNCHANGED streamFrame

StreamNext ==
    \/ StreamSendDraft
    \/ StreamSpawnUpdater
    \/ \E delta \in Deltas : ToolLoopSends(delta)
    \/ StreamCancel
    \/ StreamSelect
    \/ UpdaterRecv
    \/ UpdaterUpdates
    \/ UpdaterEnds
    \/ StreamAwaitUpdater
    \/ StreamHandle

StreamSpec == StreamInit /\ [][StreamNext]_vars

\* The update_draft calls of the run, in order.
Updates == SelectSeq(stream.calls, LAMBDA c : c.op = "update_draft")

\* The positions in the deltas sent of those that carry text.
TextDeltas == {i \in 1..Len(stream.sent) : stream.sent[i] # DRAFT_CLEAR_SENTINEL}

\* The position of the k-th delta that carries text.
TextDelta(k) == CHOOSE i \in TextDeltas : Cardinality({j \in TextDeltas : j <= i}) = k

\* The deltas after the most recent clear sentinel of a sequence of deltas.
SinceClear(deltas) ==
    LET clears == {i \in 1..Len(deltas) : deltas[i] = DRAFT_CLEAR_SENTINEL}
    IN IF clears = {} THEN deltas
       ELSE SubSeq(deltas, (CHOOSE i \in clears : \A j \in clears : j <= i) + 1, Len(deltas))

RECURSIVE Concatenation(_)
Concatenation(deltas) ==
    IF deltas = <<>> THEN "" ELSE Head(deltas) \o Concatenation(Tail(deltas))

\* C33: the k-th update_draft call of a run is made for the k-th delta that is
\* not the clear sentinel, and carries the concatenation, in the order sent, of
\* the deltas from the most recent clear sentinel before it (from the first
\* delta if there is none) up to it; a clear sentinel makes no call of its own,
\* and once the updater has ended every delta that carries text has had its call.
C33_UpdateCarriesTextSinceClear ==
    /\ Len(Updates) <= Cardinality(TextDeltas)
    /\ \A k \in 1..Len(Updates) :
          Updates[k].text = Concatenation(SinceClear(SubSeq(stream.sent, 1, TextDelta(k))))
    /\ stream.draft_updater = "ended" => Len(Updates) = Cardinality(TextDeltas)

\* The updater rendered a delta, was told to clear, and rendered the next
\* delta on its own.
C33_Witness ==
    /\ stream.sent = <<"a", DRAFT_CLEAR_SENTINEL, "b">>
    /\ stream.draft_updater = "ended"
    /\ Len(Updates) = 2
    /\ Updates[1].text = "a"
    /\ Updates[2].text = "b"

\* C37: every update_draft call of a run comes after the send_draft call that
\* returned the draft's id and before the run's finalize_draft or cancel_draft
\* call, and when the outcome of the provider call is handled the draft
\* updater, if one was spawned, has ended with nothing left in its channel.
C37_UpdatesBeforeOutcome ==
    /\ \A i \in 1..Len(stream.calls) :
          stream.calls[i].op = "update_draft" =>
              /\ \E j \in 1..(i - 1) :
                    stream.calls[j].op = "send_draft" /\ stream.calls[j].result = "ok"
              /\ \A j \in 1..Len(stream.calls) :
                    stream.calls[j].op \in {"finalize_draft", "cancel_draft"} => i < j
    /\ stream.pc \in {"handle", "done"} =>
          /\ stream.draft_updater \in {"none", "ended"}
          /\ stream.delta_rx = <<>>

\* The token fired while deltas were still in the channel: the updater rendered
\* every one of them, and only then was the draft cancelled.
C37_Witness ==
    /\ stream.pc = "done"
    /\ stream.llm_result = "cancelled"
    /\ Len(stream.sent) = MaxDeltas
    /\ Len(Updates) = MaxDeltas
    /\ \E i \in 1..Len(stream.calls) :
          /\ stream.calls[i].op = "cancel_draft"
          /\ stream.calls[i - 1].op = "update_draft"

\* ============================================== dispatch loop, last claims
\* C35: a pipeline run that finds its token cancelled at its entry returns at
\* once: on_message_received is not run (the pipeline's copy of the message is
\* never made), no conversation history changes in the step, and the run has
\* made no channel call (no draft, no reaction, no send) then or later.
C35_CancelledAtEntryDoesNothing ==
    [][\A w \in Workers :
          /\ (pc[w] = "begin" /\ cancelled[w] /\ pc'[w] # "begin") =>
                /\ outcome'[w] = "skipped"
                /\ pc'[w] = AfterProcess(w)
                /\ msg'[w] = NoMsg
                /\ conversation_histories' = conversation_histories
          /\ outcome'[w] = "skipped" =>
                /\ calls'[w] = <<>>
                /\ msg'[w] = NoMsg
                /\ draft_message_id'[w] = FALSE
                /\ llm_result'[w] = "none"]_vars

\* A task that was superseded while it waited for the task it had superseded
\* itself: its run returned at the entry check.
C35_Witness ==
    \E w, v \in Workers :
        /\ previous[w] # 0
        /\ previous[v] = w
        /\ outcome[w] = "skipped"
        /\ calls[w] = <<>>
        /\ pc[w] = "done"

\* C36: a worker whose message is not up for interruption (the flag is off, or
\* the channel is not "telegram") never takes the lock of the map, inserts no
\* entry, cancels no token and waits for no task; its own token is never
\* cancelled, so its pipeline run never ends Cancelled; and the map has no
\* entry for a scope that is not up for interruption.
C36_NoInterruptionOutsideTelegram ==
    /\ \A w \in Workers :
          (pc[w] # "idle" /\ ~InterruptOn(w)) =>
              /\ pc[w] \notin {"insert", "inserting", "cancel_previous", "wait_previous",
                              "cleanup", "cleaning"}
              /\ active # w
              /\ previous[w] = 0
              /\ \A v \in Workers : previous[v] # w
              /\ \A k \in ScopeKeys : in_flight_by_sender[k].owner # w
              /\ ~cancelled[w]
              /\ llm_result[w] \notin {"cancelled", "err_cancelled"}
              /\ outcome[w] \notin {"cancelled", "skipped"}
    /\ \A k \in ScopeKeys :
          (~ctx.interrupt_on_new_message \/ k[1] # "telegram") =>
              in_flight_by_sender[k] = NoEntry

\* The flag is on, and two messages of one sender on another channel are in
\* their provider calls at the same time, neither interrupting the other.
C36_Witness ==
    \E w, v \in Workers :
        /\ w # v
        /\ ctx.interrupt_on_new_message
        /\ wmsg[w].channel = "cli"
        /\ SameScope(w, v)
        /\ pc[w] = "exec"
        /\ pc[v] = "exec"

\* C34: with interruption switched on, a worker that waits for the completion
\* signal of the task it superseded eventually proceeds, and every worker that
\* was spawned eventually marks its completion and ends, its permit released.
\* Every provider call of the runs explored returns or times out, cancelled or not.
C34_NoWorkerWaitsForever ==
    \A w \in 1..(MaxMessages + Cardinality(ChainRoles)) :
        /\ (w \in Workers /\ ctx.interrupt_on_new_message /\ pc[w] = "wait_previous")
              ~> (w \in Workers /\ pc[w] # "wait_previous")
        /\ (w \in Workers /\ ctx.interrupt_on_new_message /\ pc[w] # "idle")
              ~> (w \in Workers /\ completion[w] /\ pc[w] = "done")

====
